---- MODULE Spec2Model ----
(***************************************************************************)
(* Model of the grower-data pipeline: the ingestion of one contract's      *)
(* parcel records into the relational store (fetchContracts.js), the       *)
(* polygon decoder and the all-beds exporter (exportBedsToGeoJSON), the    *)
(* address normalizer and the geocoding pass (geocodeAddresses.js).        *)
(*                                                                         *)
(* The store is the six tables of schema.sql, each a set of rows.  The     *)
(* SERIAL sequences are kept apart from the tables because PostgreSQL      *)
(* does not roll a sequence back with its transaction.  The created_at /   *)
(* updated_at columns are left out: no row is ever selected by them.       *)
(***************************************************************************)
EXTENDS Integers, Sequences, FiniteSets, TLC

\* SQL NULL, and a JS null/undefined, of a text-typed value.
NULL == "NULL"

-----------------------------------------------------------------------------
(* Bounds *)

\* Number of insertIntoDatabase calls of one behaviour.
MaxCalls == 2
\* Longest payload (records of one contract fetch).
MaxRecs == 2
\* Longest coordinate list of a generated polygon text.
MaxPairs == 3
\* Most addresses without coordinates at the start of a geocoding pass.
MaxAddrs == 2
\* Milliseconds a provider takes to answer a request it does answer.
Latency == 250
\* The longest contract list of a fetch run.
MaxContracts == 3
\* Name-reconciliation passes between two ingestions.
MaxPasses == 2

-----------------------------------------------------------------------------
(* Text as a sequence of one-character strings *)

Digit == <<"0", "1", "2", "3", "4", "5", "6", "7", "8", "9">>

RECURSIVE FormatNat(_)
FormatNat(n) ==
    IF n < 10 THEN <<Digit[n + 1]>>
    ELSE FormatNat(n \div 10) \o <<Digit[(n % 10) + 1]>>

\* Decimal rendering of an integer, as the upstream API writes a coordinate.
FormatInt(n) == IF n < 0 THEN <<"-">> \o FormatNat(0 - n) ELSE FormatNat(n)

RECURSIVE EncodePairs(_)
EncodePairs(ps) ==
    IF ps = <<>> THEN <<>>
    ELSE <<"(">> \o FormatInt(ps[1][1]) \o <<",">> \o FormatInt(ps[1][2]) \o <<")">>
         \o (IF Len(ps) > 1 THEN <<",">> ELSE <<>>) \o EncodePairs(Tail(ps))

\* The inbound geometry format: ((lon,lat),(lon,lat),...)
Encode(ps) == <<"(">> \o EncodePairs(ps) \o <<")">>

\* A text value that is SQL NULL (no text at all).
NULLTEXT == <<NULL>>

-----------------------------------------------------------------------------
(* GeometryCodec: parsePolygonToGeoJSON *)

\* A JS value of a decoded component: a number, NaN or undefined.
Number(n) == [kind |-> "number", value |-> n]
NaN == [kind |-> "NaN", value |-> 0]
Undefined == [kind |-> "undefined", value |-> 0]

\* The null that the decoder returns from its catch block.
NullCoordinates == <<>>

IsDigit(c) == \E d \in 1..10 : Digit[d] = c
DigitVal(c) == (CHOOSE d \in 1..10 : Digit[d] = c) - 1

\* String.prototype.replace(/^\(\(/, '')
StripLeading(s) ==
    IF Len(s) >= 2 /\ s[1] = "(" /\ s[2] = "(" THEN SubSeq(s, 3, Len(s)) ELSE s

\* String.prototype.replace(/\)\)$/, '')
StripTrailing(s) ==
    IF Len(s) >= 2 /\ s[Len(s) - 1] = ")" /\ s[Len(s)] = ")"
    THEN SubSeq(s, 1, Len(s) - 2) ELSE s

\* String.prototype.split(sep) with a non-empty string separator.
RECURSIVE Split(_, _)
Split(s, sep) ==
    LET hits == {i \in 1..(Len(s) - Len(sep) + 1) : SubSeq(s, i, i + Len(sep) - 1) = sep}
    IN  IF hits = {} THEN <<s>>
        ELSE LET i == CHOOSE h \in hits : \A g \in hits : h <= g
             IN  <<SubSeq(s, 1, i - 1)>> \o Split(SubSeq(s, i + Len(sep), Len(s)), sep)

RECURSIVE SkipSpaces(_)
SkipSpaces(s) == IF s # <<>> /\ s[1] = " " THEN SkipSpaces(Tail(s)) ELSE s

\* Value of the longest all-digit prefix, and its length.
RECURSIVE LeadingDigits(_, _, _)
LeadingDigits(s, acc, n) ==
    IF s # <<>> /\ IsDigit(s[1])
    THEN LeadingDigits(Tail(s), acc * 10 + DigitVal(s[1]), n + 1)
    ELSE [value |-> acc, len |-> n]

\* parseFloat over the alphabet of the model (no fraction, no exponent):
\* leading blanks, an optional sign, then the longest run of digits; what
\* follows the digits is ignored, and no digit at all gives NaN.
parseFloat(str) ==
    LET s == SkipSpaces(str)
        neg == s # <<>> /\ s[1] = "-"
        pos == s # <<>> /\ s[1] = "+"
        body == IF neg \/ pos THEN Tail(s) ELSE s
        d == LeadingDigits(body, 0, 0)
    IN  IF d.len = 0 THEN NaN
        ELSE Number(IF neg THEN 0 - d.value ELSE d.value)

\* Mutant of DecodePair: the two components are taken in (lat, lon) order.
DecodePair_Swapped(pair) ==
    LET parts == Split(pair, <<",">>)
        nums == [i \in 1..Len(parts) |-> parseFloat(parts[i])]
    IN  <<IF Len(nums) >= 2 THEN nums[2] ELSE Undefined, nums[1]>>

\* const [lon, lat] = pair.split(',').map(parseFloat); return [lon, lat]
DecodePair(pair) ==
    LET parts == Split(pair, <<",">>)
        nums == [i \in 1..Len(parts) |-> parseFloat(parts[i])]
    IN  <<nums[1], IF Len(nums) >= 2 THEN nums[2] ELSE Undefined>>

\* The catch block is entered only when polygonString is no string: replace,
\* split, map and parseFloat never throw on a string.
parsePolygonToGeoJSON(polygonString) ==
    IF polygonString = NULLTEXT THEN NullCoordinates
    ELSE LET coordString == StripTrailing(StripLeading(polygonString))
             pairs == Split(coordString, <<")", ",", "(">>)
             coordinates == [i \in 1..Len(pairs) |-> DecodePair(pairs[i])]
         IN  <<coordinates>>

\* Inputs of the decoder: generated polygon texts and their malformations.
Lons == {-1, 10}
Lats == {2, 33}
CoordPairs == {<<lon, lat>> : lon \in Lons, lat \in Lats}
PairSeqs == UNION {[1..n -> CoordPairs] : n \in 1..MaxPairs}

Malformations == {"none", "dropClose", "dropOpen", "nonNumeric", "dropComma", "empty"}

RECURSIVE DropFirst(_, _)
DropFirst(s, c) ==
    IF s = <<>> THEN <<>>
    ELSE IF s[1] = c THEN Tail(s) ELSE <<s[1]>> \o DropFirst(Tail(s), c)

Malform(t, m) ==
    CASE m = "none" -> t
      [] m = "dropClose" -> SubSeq(t, 1, Len(t) - 1)
      [] m = "dropOpen" -> Tail(t)
      [] m = "nonNumeric" -> [t EXCEPT ![3] = "x"]
      [] m = "dropComma" -> DropFirst(t, ",")
      [] m = "empty" -> <<>>

PolygonTexts == {Malform(Encode(ps), m) : ps \in PairSeqs, m \in Malformations} \cup {NULLTEXT}

\* The texts of the inbound format, over the coordinates of the model.
WellFormed(t) == \E ps \in PairSeqs : Encode(ps) = t


-----------------------------------------------------------------------------
(* The relational store (schema.sql) *)

Tables == {"farms", "farm_addresses", "contracts", "bed_blocks", "beds", "shapes"}

EmptyDb == [tb \in Tables |-> {}]

\* Every SERIAL sequence starts at its first value.
InitSeq == [tb \in Tables |-> 1]

\* The row of a table with a given id.
RowsById(rows, id) == {r \in rows : r.id = id}

\* A UNIQUE constraint never matches on a NULL column.
KeyEq(x, y) == x # NULL /\ y # NULL /\ x = y

-----------------------------------------------------------------------------
(* Upstream payload: one record per bed of a contract fetch *)

Polygon1 == Encode(<<<<-1, 2>>, <<10, 2>>, <<10, 33>>>>)
Polygon2 == Encode(<<<<10, 33>>, <<-1, 33>>, <<-1, 2>>>>)
\* A polygon text whose closing parenthesis is missing.
PolygonBad == Malform(Polygon1, "dropClose")

\* A timestamp as the API writes it: YYYY-MM-DDT00:00:00.
TwoDigits(n) == <<Digit[(n \div 10) + 1], Digit[(n % 10) + 1]>>
Timestamp(y, m, d) ==
    FormatNat(y) \o <<"-">> \o TwoDigits(m) \o <<"-">> \o TwoDigits(d)
        \o <<"T", "0", "0", ":", "0", "0", ":", "0", "0">>

FruitTypeA == [Export |-> TRUE, GlobalGap |-> FALSE, Organic |-> FALSE,
               Processed |-> TRUE, White |-> FALSE]
FruitTypeB == [Export |-> FALSE, GlobalGap |-> TRUE, Organic |-> TRUE,
               Processed |-> FALSE, White |-> TRUE]

\* Three addresses; the first two differ in street and in city.
AddressA == [Street1 |-> "12 Oak|West", Street2 |-> NULL, City |-> "Wareham",
             State |-> "MA", PostalCode |-> "02571", Country |-> "US"]
AddressB == [Street1 |-> "12 Oak", Street2 |-> "Rear", City |-> "West|Wareham",
             State |-> "MA", PostalCode |-> "02571", Country |-> "US"]

AddressC == [Street1 |-> "7 Pine", Street2 |-> NULL, City |-> "Carver",
             State |-> "MA", PostalCode |-> "02330", Country |-> "US"]

ParcelA == [BedHistoryId |-> "b1", Address |-> AddressA, BogName |-> "North",
            HandlerSectionName |-> "H1", Acres |-> 10, Variety |-> "Stevens",
            PlantDate |-> Timestamp(1998, 5, 1), FruitType |-> FruitTypeA,
            Shape |-> <<[type |-> "polygon", value |-> Polygon1],
                        [type |-> "polygon", value |-> Polygon2]>>]
ParcelB == [BedHistoryId |-> "b2", Address |-> AddressB, BogName |-> "North",
            HandlerSectionName |-> "H2", Acres |-> 0, Variety |-> "Howes",
            PlantDate |-> NULLTEXT, FruitType |-> FruitTypeB,
            Shape |-> <<[type |-> "polygon", value |-> PolygonBad]>>]
\* Bed b1 reported again, with other values, no block name and no shape list
\* (an absent list and an empty one take the same path through line 280).
ParcelC == [BedHistoryId |-> "b1", Address |-> AddressA, BogName |-> NULL,
            HandlerSectionName |-> "H3", Acres |-> 7, Variety |-> "Howes",
            PlantDate |-> Timestamp(2001, 6, 15), FruitType |-> FruitTypeB,
            Shape |-> <<>>]
ParcelD == [BedHistoryId |-> "b3", Address |-> AddressC, BogName |-> "South",
            HandlerSectionName |-> "H4", Acres |-> 3, Variety |-> "Stevens",
            PlantDate |-> Timestamp(1998, 5, 1), FruitType |-> FruitTypeA,
            Shape |-> <<[type |-> "polygon", value |-> Polygon2]>>]
\* A malformed record: the required bed-history identifier is missing.
ParcelE == [BedHistoryId |-> NULL, Address |-> AddressB, BogName |-> "South",
            HandlerSectionName |-> "H5", Acres |-> 1, Variety |-> "Stevens",
            PlantDate |-> NULLTEXT, FruitType |-> FruitTypeA,
            Shape |-> <<>>]

Parcels == {ParcelA, ParcelB, ParcelC, ParcelD, ParcelE}

\* What one fetch is for: the contract the API answers with, and the crop year.
Fetches ==
    {[ContractId |-> "c1", ContractNumber |-> "1001", cropYear |-> 2024],
     [ContractId |-> "c1", ContractNumber |-> "1001-R", cropYear |-> 2024],
     [ContractId |-> "c1", ContractNumber |-> "1001", cropYear |-> 2025]}

\* Every record of a response carries the contract's identifier and number.
Payload(f, recs) ==
    [i \in 1..Len(recs) |->
        [ContractId |-> f.ContractId, ContractNumber |-> f.ContractNumber] @@ recs[i]]

ParcelSeqs == UNION {[1..n -> Parcels] : n \in 0..MaxRecs}


-----------------------------------------------------------------------------
(* EntityReconciler: the statements of fetchContracts.js *)

(* A transaction in progress: the tables as the connection sees them, the   *)
(* sequences, the counts of insertIntoDatabase, whether a statement has     *)
(* thrown, the id a statement returned, the farm of the batch and the two    *)
(* caches of the batch.                                                     *)
\* Mutant of Begin: the caches are not of the call but of the process, and hold
\* what the earlier batches put in them.
Begin_SharedCaches(db0, seq0) ==
    LET KeyOf(a) == (IF a.street = NULL THEN "null" ELSE a.street) \o "|"
                        \o (IF a.city = NULL THEN "null" ELSE a.city) \o "|"
                        \o (IF a.state = NULL THEN "null" ELSE a.state) \o "|"
                        \o (IF a.postal_code = NULL THEN "null" ELSE a.postal_code)
        Last(rows) == CHOOSE r \in rows : \A o \in rows : o.id <= r.id
    IN  [db |-> db0, seq |-> seq0,
         stats |-> [tb \in Tables |-> 0],
         err |-> FALSE, ret |-> 0, farmId |-> 0,
         addressCache |->
            [k \in {KeyOf(a) : a \in db0.farm_addresses} |->
                Last({a \in db0.farm_addresses : KeyOf(a) = k}).id],
         bedBlockCache |->
            [k \in {b.name : b \in db0.bed_blocks} |->
                Last({b \in db0.bed_blocks : b.name = k}).id]]

Begin(db0, seq0) ==
    [db |-> db0, seq |-> seq0,
     stats |-> [tb \in Tables |-> 0],
     err |-> FALSE, ret |-> 0, farmId |-> 0,
     addressCache |-> [k \in {} |-> 0],
     bedBlockCache |-> [k \in {} |-> 0]]

\* A statement that throws: the rest of the try block is skipped.
Raise(t) == [t EXCEPT !.err = TRUE]

\* Mutant of insertOrUpdateFarm: an existing farm is found and reused.
insertOrUpdateFarm_Reuse(t) ==
    IF t.db.farms = {}
    THEN [t EXCEPT !.db.farms = {[id |-> t.seq.farms, name |-> NULL]},
                   !.seq.farms = t.seq.farms + 1,
                   !.ret = t.seq.farms]
    ELSE [t EXCEPT !.ret = (CHOOSE f \in t.db.farms : TRUE).id]

\* farms has no unique constraint but its key, so ON CONFLICT DO NOTHING never
\* applies: every call inserts a row and returns its id (lines 82-86 are dead).
insertOrUpdateFarm(t) ==
    LET id == t.seq.farms
    IN  [t EXCEPT !.db.farms = @ \cup {[id |-> id, name |-> NULL]},
                  !.seq.farms = id + 1,
                  !.ret = id]

\* INSERT ... ON CONFLICT draws the new row's id from the sequence before it
\* looks for the conflict, so the sequence advances on an update too.
insertOrUpdateFarmAddress(t, farmId, addressData) ==
    LET id == t.seq.farm_addresses
        hit == {r \in t.db.farm_addresses :
                    /\ r.farm_id = farmId
                    /\ KeyEq(r.street, addressData.Street1)
                    /\ KeyEq(r.city, addressData.City)
                    /\ KeyEq(r.state, addressData.State)
                    /\ KeyEq(r.postal_code, addressData.PostalCode)}
        row == [id |-> id, farm_id |-> farmId,
                street |-> addressData.Street1, street2 |-> addressData.Street2,
                city |-> addressData.City, state |-> addressData.State,
                postal_code |-> addressData.PostalCode,
                country |-> addressData.Country,
                latitude |-> NULL, longitude |-> NULL]
    IN  IF hit = {}
        THEN [t EXCEPT !.db.farm_addresses = @ \cup {row},
                       !.seq.farm_addresses = id + 1,
                       !.ret = id]
        ELSE LET old == CHOOSE r \in hit : TRUE
                 new == [old EXCEPT !.street2 = addressData.Street2,
                                    !.country = addressData.Country]
             IN  [t EXCEPT !.db.farm_addresses = (@ \ {old}) \cup {new},
                           !.seq.farm_addresses = id + 1,
                           !.ret = old.id]

\* Mutant of ContractConflict: the crop year is no part of the key.
ContractConflict_AnyYear(r, apiContractId, cropYear) ==
    KeyEq(r.api_contract_id, apiContractId)

\* The conflict target of the contract upsert (schema.sql line 64).
ContractConflict(r, apiContractId, cropYear) ==
    KeyEq(r.api_contract_id, apiContractId) /\ r.crop_year = cropYear

insertOrUpdateContract(t, apiContractId, contractNumber, farmId, cropYear) ==
    LET id == t.seq.contracts
        hit == {r \in t.db.contracts : ContractConflict(r, apiContractId, cropYear)}
        row == [id |-> id, api_contract_id |-> apiContractId,
                contract_number |-> contractNumber,
                farm_id |-> farmId, crop_year |-> cropYear]
    IN  IF apiContractId = NULL \/ contractNumber = NULL
        THEN Raise(t)    \* NOT NULL violation
        ELSE IF hit = {}
        THEN [t EXCEPT !.db.contracts = @ \cup {row},
                       !.seq.contracts = id + 1,
                       !.ret = id]
        ELSE LET old == CHOOSE r \in hit : TRUE
                 new == [old EXCEPT !.contract_number = contractNumber,
                                    !.farm_id = farmId]
             IN  [t EXCEPT !.db.contracts = (@ \ {old}) \cup {new},
                           !.seq.contracts = id + 1,
                           !.ret = old.id]

insertOrUpdateBedBlock(t, contractId, blockName) ==
    LET id == t.seq.bed_blocks
        hit == {r \in t.db.bed_blocks :
                    r.contract_id = contractId /\ KeyEq(r.name, blockName)}
        row == [id |-> id, contract_id |-> contractId, name |-> blockName]
    IN  IF hit = {}
        THEN [t EXCEPT !.db.bed_blocks = @ \cup {row},
                       !.seq.bed_blocks = id + 1,
                       !.ret = id]
        ELSE [t EXCEPT !.seq.bed_blocks = id + 1,
                       !.ret = (CHOOSE r \in hit : TRUE).id]

\* The columns the bed upsert writes, on insert and on conflict alike.
BedColumns(bedData, contractId, bedBlockId, farmAddressId) ==
    [api_bed_history_id |-> bedData.BedHistoryId,
     contract_id |-> contractId,
     bed_block_id |-> bedBlockId,
     farm_address_id |-> farmAddressId,
     bed_name |-> bedData.HandlerSectionName,
     handler_section_name |-> bedData.HandlerSectionName,
     acres |-> bedData.Acres,
     variety |-> bedData.Variety,
     plant_date |-> bedData.PlantDate,
     fruit_type_export |-> bedData.FruitType.Export,
     fruit_type_global_gap |-> bedData.FruitType.GlobalGap,
     fruit_type_organic |-> bedData.FruitType.Organic,
     fruit_type_processed |-> bedData.FruitType.Processed,
     fruit_type_white |-> bedData.FruitType.White]

\* Mutant of insertOrUpdateBed: a conflict leaves the three references alone.
insertOrUpdateBed_KeepsRefs(t, bedData, contractId, bedBlockId, farmAddressId) ==
    LET id == t.seq.beds
        hit == {r \in t.db.beds : KeyEq(r.api_bed_history_id, bedData.BedHistoryId)}
        cols == BedColumns(bedData, contractId, bedBlockId, farmAddressId)
    IN  IF bedData.BedHistoryId = NULL
        THEN Raise(t)
        ELSE IF hit = {}
        THEN [t EXCEPT !.db.beds = @ \cup {[id |-> id] @@ cols},
                       !.seq.beds = id + 1,
                       !.ret = id]
        ELSE LET old == CHOOSE r \in hit : TRUE
                 new == [cols EXCEPT !.contract_id = old.contract_id,
                                     !.bed_block_id = old.bed_block_id,
                                     !.farm_address_id = old.farm_address_id]
             IN  [t EXCEPT !.db.beds = (@ \ {old}) \cup {[id |-> old.id] @@ new},
                           !.seq.beds = id + 1,
                           !.ret = old.id]

insertOrUpdateBed(t, bedData, contractId, bedBlockId, farmAddressId) ==
    LET id == t.seq.beds
        hit == {r \in t.db.beds : KeyEq(r.api_bed_history_id, bedData.BedHistoryId)}
        cols == BedColumns(bedData, contractId, bedBlockId, farmAddressId)
    IN  IF bedData.BedHistoryId = NULL
        THEN Raise(t)    \* NOT NULL violation
        ELSE IF hit = {}
        THEN [t EXCEPT !.db.beds = @ \cup {[id |-> id] @@ cols},
                       !.seq.beds = id + 1,
                       !.ret = id]
        ELSE LET old == CHOOSE r \in hit : TRUE
             IN  [t EXCEPT !.db.beds = (@ \ {old}) \cup {[id |-> old.id] @@ cols},
                           !.seq.beds = id + 1,
                           !.ret = old.id]

\* Mutant of insertOrUpdateShape: the DELETE has no WHERE clause.
insertOrUpdateShape_DeletesAll(t, bedId, shape) ==
    LET id == t.seq.shapes
        row == [id |-> id, bed_id |-> bedId,
                shape_type |-> shape.type, shape_value |-> shape.value]
    IN  [t EXCEPT !.db.shapes = {row},
                  !.seq.shapes = id + 1]

\* DELETE FROM shapes WHERE bed_id = $1, then one INSERT.
insertOrUpdateShape(t, bedId, shape) ==
    LET id == t.seq.shapes
        kept == {r \in t.db.shapes : r.bed_id # bedId}
        row == [id |-> id, bed_id |-> bedId,
                shape_type |-> shape.type, shape_value |-> shape.value]
    IN  [t EXCEPT !.db.shapes = kept \cup {row},
                  !.seq.shapes = id + 1]


\* A template literal renders null as the text "null".
Render(x) == IF x = NULL THEN "null" ELSE x

\* `${Street1}|${City}|${State}|${PostalCode}`
AddressKey(address) ==
    Render(address.Street1) \o "|" \o Render(address.City) \o "|"
        \o Render(address.State) \o "|" \o Render(address.PostalCode)

\* for (const shape of bedRecord.Shape) { insertOrUpdateShape; stats.shapes++ }
RECURSIVE InsertShapes(_, _, _)
InsertShapes(t, bedId, shapeList) ==
    IF shapeList = <<>> THEN t
    ELSE InsertShapes(
            [insertOrUpdateShape(t, bedId, Head(shapeList)) EXCEPT !.stats.shapes = @ + 1],
            bedId, Tail(shapeList))

\* One turn of the loop over contractData (lines 250-286).  `lost` says that
\* the connection fails at the bed statement of this record.
ProcessRecord(t, farmId, contractId, bedRecord, lost) ==
    LET addressKey == AddressKey(bedRecord.Address)
        t1 == IF addressKey \in DOMAIN t.addressCache
              THEN [t EXCEPT !.ret = t.addressCache[addressKey]]
              ELSE LET u == insertOrUpdateFarmAddress(t, farmId, bedRecord.Address)
                   IN  [u EXCEPT !.addressCache = @ @@ (addressKey :> u.ret),
                                 !.stats.farm_addresses = @ + 1]
        farmAddressId == t1.ret
        blockName == bedRecord.BogName
        t2 == IF blockName \in DOMAIN t1.bedBlockCache
              THEN [t1 EXCEPT !.ret = t1.bedBlockCache[blockName]]
              ELSE LET u == insertOrUpdateBedBlock(t1, contractId, blockName)
                   IN  [u EXCEPT !.bedBlockCache = @ @@ (blockName :> u.ret),
                                 !.stats.bed_blocks = @ + 1]
        bedBlockId == t2.ret
        t3 == IF lost THEN Raise(t2)
              ELSE insertOrUpdateBed(t2, bedRecord, contractId, bedBlockId, farmAddressId)
    IN  IF t3.err THEN t3
        ELSE InsertShapes([t3 EXCEPT !.stats.beds = @ + 1], t3.ret, bedRecord.Shape)

\* The loop; a statement that threw in the contract upsert or in an earlier
\* record ends it.
RECURSIVE ProcessRecords(_, _, _, _, _, _)
ProcessRecords(t, farmId, contractId, contractData, i, fault) ==
    IF i > Len(contractData) \/ t.err THEN t
    ELSE ProcessRecords(
            ProcessRecord(t, farmId, contractId, contractData[i], fault = i),
            farmId, contractId, contractData, i + 1, fault)

\* Mutant of ROLLBACK: the statements of the failed transaction stay.
ROLLBACK_KeepsWork(db0, t) == t

\* ROLLBACK: the tables are again those of BEGIN; the sequences are not.
ROLLBACK(db0, t) == [t EXCEPT !.db = db0]

\* The try block from the contract statement on (lines 236-286).
Records(t1, contractData, cropYear, fault) ==
    IF t1.err THEN t1
    ELSE ProcessRecords([t1 EXCEPT !.stats.contracts = 1], t1.farmId, t1.ret,
                        contractData, 1, fault)

Contract(t, contractData, cropYear, fault) ==
    Records(insertOrUpdateContract([t EXCEPT !.farmId = t.ret],
                contractData[1].ContractId, contractData[1].ContractNumber,
                t.ret, cropYear),
            contractData, cropYear, fault)

\* The try block (lines 223-286): an empty payload throws 'No data to insert'.
TryBlock(begin, contractData, cropYear, fault) ==
    IF contractData = <<>> THEN Raise(begin)
    ELSE Contract([insertOrUpdateFarm(begin) EXCEPT !.stats.farms = 1],
                  contractData, cropYear, fault)

\* COMMIT, which fails when the connection is lost there.
COMMIT(t, lost) == IF ~t.err /\ lost THEN Raise(t) ELSE t

\* The catch block: any failure of the try block, COMMIT included, rolls back.
Catch(db0, t) == IF t.err THEN ROLLBACK(db0, t) ELSE t

\* What the call returns, with the tables and sequences it leaves behind.
Outcome(t) == [success |-> ~t.err, stats |-> t.stats, db |-> t.db, seq |-> t.seq]

(* insertIntoDatabase(contractData, cropYear).  `fault` is where the        *)
(* connection is lost: 0 nowhere, i at the bed statement of record i,       *)
(* Len(contractData) + 1 at COMMIT.                                         *)
insertIntoDatabase(db0, seq0, contractData, cropYear, fault) ==
    Outcome(Catch(db0,
        COMMIT(TryBlock(Begin(db0, seq0), contractData, cropYear, fault),
               fault = Len(contractData) + 1)))

-----------------------------------------------------------------------------
(* State *)

VARIABLES
    db,        \* the committed tables
    seq,       \* the next value of each SERIAL sequence
    ncalls,    \* insertIntoDatabase calls so far
    call,      \* the last call: its arguments and what it returned
    prev,      \* the call before it
    before,    \* the tables as they were when the last call began
    exported,  \* what the last run of the all-beds export produced
    polygonString,   \* the argument of a parsePolygonToGeoJSON call
    coordinates,     \* what the call returned
    decodePc,        \* "idle" before the call, "done" after it
    rawAddress,      \* the argument of a cleanAddress call
    cleaned,         \* what the call returned
    cleanPc,         \* "idle" before the call, "done" after it
    gpc,             \* where geocodeAllAddresses stands
    addresses,       \* the rows its SELECT returned
    addrIdx,         \* the position of the loop in them (i + 1)
    frame,           \* geocodeAddress: cleaned and addressString
    result,          \* the settled promise of the geocodeAddress call
    tally,           \* successCount, approximateCount, failCount and stats
    failed,          \* the failed list
    inflight,        \* the provider requests in flight
    now,             \* milliseconds since the pass started
    requests,        \* history: the provider requests of the pass
    trail,           \* history: the steps of the current geocodeAddress call
    outcomes,        \* history: what the loop did with each address
    run,             \* the fetch run: its contract list, where it stands, results
    byFarm,          \* what the last run of the by-farm export wrote
    points,          \* what the last run of the points export wrote
    naming           \* what the last name-reconciliation pass counted

vars == <<db, seq, ncalls, call, prev, before, exported,
          polygonString, coordinates, decodePc,
          rawAddress, cleaned, cleanPc,
          gpc, addresses, addrIdx, frame, result, tally, failed, inflight, now,
          requests, trail, outcomes,
          run, byFarm, points, naming>>
pipeVars == <<run, byFarm, points, naming>>
geoVars == <<gpc, addresses, addrIdx, frame, result, tally, failed, inflight, now,
             requests, trail, outcomes>>
decodeVars == <<polygonString, coordinates, decodePc>>
cleanVars == <<rawAddress, cleaned, cleanPc>>
storeVars == <<db, seq, ncalls, call, prev, before>>

NoCall ==
    [op |-> "none", contractData |-> <<>>, cropYear |-> 0,
     success |-> FALSE, stats |-> [tb \in Tables |-> 0]]

\* No export has run on the store as it is.
NotExported ==
    [done |-> FALSE, written |-> FALSE, rows |-> 0, features |-> <<>>,
     validShapes |-> 0, invalidShapes |-> 0]

\* No cleanAddress call is under way.
InitClean ==
    /\ rawAddress = <<>>
    /\ cleaned = <<>>
    /\ cleanPc = "idle"

\* Lines 300-304.
ZeroTally ==
    [successCount |-> 0, approximateCount |-> 0, failCount |-> 0,
     census |-> 0, nominatim |-> 0, cityLevel |-> 0]

\* No geocodeAddress call is under way.
NoFrame == [cleaned |-> <<>>, addressString |-> ""]

\* geocodeAllAddresses has not started.
InitPass ==
    /\ gpc = "start"
    /\ addresses = <<>>
    /\ addrIdx = 0
    /\ frame = NoFrame
    /\ result = [rejected |-> FALSE, value |-> <<>>, message |-> ""]
    /\ tally = ZeroTally
    /\ failed = <<>>
    /\ inflight = {}
    /\ now = 0
    /\ requests = <<>>
    /\ trail = <<>>
    /\ outcomes = <<>>

\* No fetch run is under way.
NoRun == [contracts |-> <<>>, cropYear |-> 0, pc |-> "idle", next |-> 1,
          results |-> <<>>, log |-> <<>>, summary |-> <<>>]

\* No by-farm export has run on the store as it is.
NotExportedByFarm ==
    [done |-> FALSE, docs |-> <<>>, files |-> {}, totalFiles |-> 0, totalBeds |-> 0]

\* No points export has run on the store as it is.
NoPoints == [done |-> FALSE, written |-> FALSE, features |-> <<>>]

\* No name-reconciliation pass has run.
NoNaming ==
    [done |-> FALSE, passes |-> 0, growerList |-> <<>>,
     updatedCount |-> 0, notFoundCount |-> 0, alreadySetCount |-> 0]

InitPipe ==
    /\ run = NoRun
    /\ byFarm = NotExportedByFarm
    /\ points = NoPoints
    /\ naming = NoNaming

InitStore ==
    /\ db = EmptyDb
    /\ seq = InitSeq
    /\ ncalls = 0
    /\ call = NoCall
    /\ prev = NoCall
    /\ before = EmptyDb
    /\ exported = NotExported

Init ==
    /\ InitStore
    /\ InitPipe
    /\ InitClean
    /\ InitPass
    /\ polygonString = <<>>
    /\ coordinates = NullCoordinates
    /\ decodePc = "idle"

\* One contract of the run: the fetched payload goes through insertIntoDatabase.
IngestOf(responses, faults) ==
    \E f \in Fetches, recs \in responses, fault \in faults :
        /\ ncalls < MaxCalls
        /\ fault <= Len(recs) + 1
        /\ recs = <<>> => fault = 0
        /\ \E contractData \in {Payload(f, recs)} :
           \E r \in {insertIntoDatabase(db, seq, contractData, f.cropYear, fault)} :
               /\ db' = r.db
               /\ seq' = r.seq
               /\ call' = [op |-> "ingest", contractData |-> contractData,
                           cropYear |-> f.cropYear,
                           success |-> r.success, stats |-> r.stats]
        /\ ncalls' = ncalls + 1
        /\ prev' = call
        /\ before' = db
        /\ exported' = NotExported
        /\ byFarm' = NotExportedByFarm
        /\ points' = NoPoints
        /\ naming' = NoNaming
        /\ UNCHANGED run
        /\ UNCHANGED decodeVars
        /\ UNCHANGED cleanVars
        /\ UNCHANGED geoVars

Ingest(faults) == IngestOf(ParcelSeqs, faults)

IngestBatch == Ingest(0..(MaxRecs + 1))

Next == IngestBatch

Spec == Init /\ [][Next]_vars


-----------------------------------------------------------------------------
(* FeatureExporter: exportBedsToGeoJSON (all beds in one document) *)

\* The rows of the export query: one per shape whose value is not NULL,
\* joined to its bed, the bed's contract, block and farm.
ExportRow(d, s) ==
    LET b == CHOOSE x \in d.beds : x.id = s.bed_id
        c == CHOOSE x \in d.contracts : x.id = b.contract_id
        blocks == RowsById(d.bed_blocks, b.bed_block_id)
        farms == RowsById(d.farms, c.farm_id)
    IN  [shape_id |-> s.id,
         bed_id |-> b.id, bed_name |-> b.bed_name,
         handler_section_name |-> b.handler_section_name,
         acres |-> b.acres, variety |-> b.variety, plant_date |-> b.plant_date,
         fruit_type_export |-> b.fruit_type_export,
         fruit_type_global_gap |-> b.fruit_type_global_gap,
         fruit_type_organic |-> b.fruit_type_organic,
         fruit_type_processed |-> b.fruit_type_processed,
         fruit_type_white |-> b.fruit_type_white,
         bed_block_name |-> IF blocks = {} THEN NULL ELSE (CHOOSE k \in blocks : TRUE).name,
         contract_number |-> c.contract_number, crop_year |-> c.crop_year,
         farm_id |-> c.farm_id,
         farm_name |-> IF farms = {} THEN NULL ELSE (CHOOSE f \in farms : TRUE).name,
         shape_type |-> s.shape_type, shape_value |-> s.shape_value]

\* The ORDER BY of the query is not modelled (no property here depends on the
\* order of the features): the rows come by ascending shape id.
RECURSIVE InIdOrder(_)
InIdOrder(S) ==
    IF S = {} THEN <<>>
    ELSE LET m == CHOOSE s \in S : \A u \in S : s.id <= u.id
         IN  <<m>> \o InIdOrder(S \ {m})

ExportRows(d) ==
    LET shaped == InIdOrder({s \in d.shapes : s.shape_value # NULLTEXT})
    IN  [i \in 1..Len(shaped) |-> ExportRow(d, shaped[i])]

\* Array.prototype.join
RECURSIVE Join(_, _)
Join(strs, sep) ==
    IF strs = <<>> THEN ""
    ELSE IF Len(strs) = 1 THEN strs[1]
    ELSE strs[1] \o sep \o Join(Tail(strs), sep)

FruitTypes(row) ==
    (IF row.fruit_type_export THEN <<"Export">> ELSE <<>>)
        \o (IF row.fruit_type_global_gap THEN <<"Global GAP">> ELSE <<>>)
        \o (IF row.fruit_type_organic THEN <<"Organic">> ELSE <<>>)
        \o (IF row.fruit_type_processed THEN <<"Processed">> ELSE <<>>)
        \o (IF row.fruit_type_white THEN <<"White">> ELSE <<>>)

\* row.plant_date.toISOString().split('T')[0], the process running in UTC.
IsoDate(ts) == IF ts = NULLTEXT THEN NULLTEXT ELSE Split(ts, <<"T">>)[1]

\* The feature of one row (lines 133-155).  acres is a whole number in this
\* model, which parseFloat returns as it is.
Feature(row, coords) ==
    [type |-> "Feature",
     properties |->
        [bed_id |-> row.bed_id, bed_name |-> row.bed_name,
         handler_section_name |-> row.handler_section_name,
         acres |-> row.acres, variety |-> row.variety,
         plant_date |-> IsoDate(row.plant_date),
         bed_block_name |-> row.bed_block_name,
         farm_id |-> row.farm_id,
         farm_name |-> IF row.farm_name = NULL THEN "Unknown Farm" ELSE row.farm_name,
         contract_number |-> row.contract_number, crop_year |-> row.crop_year,
         fruit_types |-> Join(FruitTypes(row), ", "),
         is_organic |-> row.fruit_type_organic,
         is_export |-> row.fruit_type_export],
     geometry |-> [type |-> "Polygon", coordinates |-> coords]]

\* if (!coordinates): only null is falsy, an array never is.
Falsy(coords) == coords = NullCoordinates

\* The loop over result.rows (lines 116-159).
RECURSIVE ConvertRows(_, _, _)
ConvertRows(rows, i, acc) ==
    IF i > Len(rows) THEN acc
    ELSE LET coords == parsePolygonToGeoJSON(rows[i].shape_value)
         IN  IF Falsy(coords)
             THEN ConvertRows(rows, i + 1, [acc EXCEPT !.invalidShapes = @ + 1])
             ELSE ConvertRows(rows, i + 1,
                    [acc EXCEPT !.features = Append(@, Feature(rows[i], coords)),
                                !.validShapes = @ + 1])

\* exportBedsToGeoJSON: with no row the process exits and writes no document.
exportBedsToGeoJSON(d) ==
    LET rows == ExportRows(d)
        start == [done |-> TRUE, written |-> FALSE, rows |-> Len(rows),
                  features |-> <<>>, validShapes |-> 0, invalidShapes |-> 0]
    IN  IF Len(rows) = 0 THEN start
        ELSE [ConvertRows(rows, 1, start) EXCEPT !.written = TRUE]

ExportAll ==
    /\ ~exported.done
    /\ exported' = exportBedsToGeoJSON(db)
    /\ UNCHANGED storeVars
    /\ UNCHANGED decodeVars
    /\ UNCHANGED cleanVars
    /\ UNCHANGED geoVars
    /\ UNCHANGED pipeVars

\* The ingestion of a run in which no connection is lost.
IngestCommit == Ingest({0})

NextExport == IngestCommit \/ ExportAll

SpecExport == Init /\ [][NextExport]_vars

-----------------------------------------------------------------------------
(* The decoder on its own *)

InitDecode ==
    /\ InitStore
    /\ InitPipe
    /\ InitClean
    /\ InitPass
    /\ polygonString \in PolygonTexts
    /\ coordinates = NullCoordinates
    /\ decodePc = "idle"

Decode ==
    /\ decodePc = "idle"
    /\ coordinates' = parsePolygonToGeoJSON(polygonString)
    /\ decodePc' = "done"
    /\ UNCHANGED <<polygonString, exported>>
    /\ UNCHANGED storeVars
    /\ UNCHANGED cleanVars
    /\ UNCHANGED geoVars
    /\ UNCHANGED pipeVars

NextDecode == Decode

SpecDecode == InitDecode /\ [][NextDecode]_vars

-----------------------------------------------------------------------------
(* AddressNormalizer: cleanAddress (geocodeAddresses.js) *)

(* The columns of farm_addresses are strings; a JS string is read here one  *)
(* character at a time with SubSeq.                                         *)
Char(s, i) == SubSeq(s, i, i)

UpperCase == "ABCDEFGHIJKLMNOPQRSTUVWXYZ"
LowerCase == "abcdefghijklmnopqrstuvwxyz"

\* The /i flag: letters compare by their lower-case form.
Lower(c) ==
    IF \E k \in 1..26 : Char(UpperCase, k) = c
    THEN Char(LowerCase, CHOOSE k \in 1..26 : Char(UpperCase, k) = c)
    ELSE c

\* \s over the alphabet of the model.
IsSpace(c) == c = " "

\* if (x) on a string or null: null and the empty string are falsy.
Truthy(str) == str # NULL /\ str # ""

\* /^lit/i
StartsWith(s, lit) ==
    /\ Len(s) >= Len(lit)
    /\ \A i \in 1..Len(lit) : Lower(Char(s, i)) = Lower(Char(lit, i))

\* The position after an optional character c at position p.
SkipOpt(s, p, c) == IF p <= Len(s) /\ Char(s, p) = c THEN p + 1 ELSE p

\* The position after the run of blanks that starts at position p (\s*).
RECURSIVE SkipWs(_, _)
SkipWs(s, p) == IF p <= Len(s) /\ IsSpace(Char(s, p)) THEN SkipWs(s, p + 1) ELSE p

\* The position after the run of non-commas that starts at position p.
RECURSIVE SkipNonComma(_, _)
SkipNonComma(s, p) ==
    IF p <= Len(s) /\ Char(s, p) # "," THEN SkipNonComma(s, p + 1) ELSE p

\* street.match(/^P\.?O\.?\s*Box/i)
MatchPOBox(s) ==
    /\ StartsWith(s, "P")
    /\ LET p1 == SkipOpt(s, 2, ".")
       IN  /\ p1 <= Len(s) /\ Lower(Char(s, p1)) = "o"
           /\ StartsWith(SubSeq(s, SkipWs(s, SkipOpt(s, p1 + 1, ".")), Len(s)), "Box")

\* street.match(/^C\/O\s+/i)
MatchCareOf(s) == StartsWith(s, "C/O") /\ Len(s) >= 4 /\ IsSpace(Char(s, 4))

\* street.match(/^Attn:/i)
MatchAttn(s) == StartsWith(s, "Attn:")

(* s.replace(/^lit\s+[^,]+,?\s*/i, '') for lit "c/o" and "Attn:".  A blank   *)
(* is a non-comma too, so the pattern matches when the run of non-commas     *)
(* after lit starts with a blank and has two characters or more (one for     *)
(* \s+, one for [^,]+); the match then takes the whole run, a comma if one   *)
(* follows, and the blanks after it.                                         *)
StripPrefix(s, lit) ==
    LET p == Len(lit) + 1
        e == SkipNonComma(s, p)
    IN  IF StartsWith(s, lit) /\ p <= Len(s) /\ IsSpace(Char(s, p)) /\ e - p >= 2
        THEN SubSeq(s, SkipWs(s, SkipOpt(s, e, ",")), Len(s))
        ELSE s

\* String.prototype.trim
RECURSIVE Trim(_)
Trim(s) ==
    IF s # "" /\ IsSpace(Char(s, 1)) THEN Trim(SubSeq(s, 2, Len(s)))
    ELSE IF s # "" /\ IsSpace(Char(s, Len(s))) THEN Trim(SubSeq(s, 1, Len(s) - 1))
    ELSE s

\* Lines 52-53 and 58-59: both prefixes are stripped, each followed by a trim.
CleanLine(s) == Trim(StripPrefix(Trim(StripPrefix(s, "c/o")), "Attn:"))

\* The null that cleanAddress returns for an address with no physical line.
NullAddress == <<>>

\* Lines 35-39.
MatchesNoPhysical(street) ==
    Truthy(street) /\ (MatchPOBox(street) \/ MatchCareOf(street) \/ MatchAttn(street))

\* Lines 50-70, from the street lines that lines 31-48 leave.
CleanLines(address, street, street2) ==
    LET s2 == IF Truthy(street2) THEN CleanLine(street2) ELSE street2
    IN  [street |-> IF Truthy(street) THEN CleanLine(street) ELSE street,
         street2 |-> IF Truthy(street2) /\ ~Truthy(s2) THEN NULL ELSE s2,
         city |-> address.city, state |-> address.state,
         postal_code |-> address.postal_code, country |-> address.country]

\* Mutant of cleanAddress: an address with no physical line is not refused.
cleanAddress_NeverFails(address) ==
    IF MatchesNoPhysical(address.street) /\ Truthy(address.street2)
    THEN CleanLines(address, address.street2, NULL)
    ELSE CleanLines(address, address.street, address.street2)

\* Mutant of cleanAddress: the promoted secondary line is not cleared.
cleanAddress_KeepsStreet2(address) ==
    IF MatchesNoPhysical(address.street)
    THEN IF Truthy(address.street2)
         THEN CleanLines(address, address.street2, address.street2)
         ELSE NullAddress
    ELSE CleanLines(address, address.street, address.street2)

cleanAddress(address) ==
    IF MatchesNoPhysical(address.street)
    THEN IF Truthy(address.street2)
         THEN CleanLines(address, address.street2, NULL)
         ELSE NullAddress
    ELSE CleanLines(address, address.street, address.street2)

\* Inputs of the normalizer: street lines as growers write them.
Streets ==
    {"PO Box 12", "P.O. Box 12", "p.o.box 7", "C/O Jane Doe, 123 Main St",
     "c/o Jane Doe", "Attn: Bob, 5 Elm St", "Attn:Bob", "123 Main St",
     "Post Office Rd", "", NULL}
Streets2 ==
    {NULL, "", "45 Bog Rd", " 45 Bog Rd ", "c/o Ann, 9 Elm St", "Attn: Bob,", "  "}
Localities ==
    {[city |-> "Wareham", state |-> "MA", postal_code |-> "02571", country |-> "US"],
     [city |-> NULL, state |-> "MA", postal_code |-> NULL, country |-> NULL]}

RawAddresses ==
    {[street |-> s, street2 |-> s2, city |-> l.city, state |-> l.state,
      postal_code |-> l.postal_code, country |-> l.country] :
        s \in Streets, s2 \in Streets2, l \in Localities}

\* The normalizer on its own.
InitNormalize ==
    /\ InitStore
    /\ InitPipe
    /\ InitPass
    /\ polygonString = <<>>
    /\ coordinates = NullCoordinates
    /\ decodePc = "idle"
    /\ rawAddress \in RawAddresses
    /\ cleaned = NullAddress
    /\ cleanPc = "idle"

Clean ==
    /\ cleanPc = "idle"
    /\ cleaned' = cleanAddress(rawAddress)
    /\ cleanPc' = "done"
    /\ UNCHANGED <<rawAddress, exported>>
    /\ UNCHANGED storeVars
    /\ UNCHANGED decodeVars
    /\ UNCHANGED geoVars
    /\ UNCHANGED pipeVars

NextClean == Clean

SpecClean == InitNormalize /\ [][NextClean]_vars

-----------------------------------------------------------------------------
(* GeocodingResolver: the two providers (geocodeAddresses.js) *)

\* DELAY_MS, and the timeout of a provider request, in milliseconds.
DELAY_MS == 1000
TIMEOUT_MS == 10000

\* How a provider request can end: a candidate list, an empty list, a request
\* timeout, a transport error, a body that is no JSON of the expected shape.
ProviderOutcomes == {"match", "empty", "timeout", "error", "unparsable"}

\* The null a geocoder resolves with, and that geocodeAddress returns.
NoResult == <<>>

\* A settled promise.
Resolved(v) == [rejected |-> FALSE, value |-> v, message |-> ""]
Rejected(msg) == [rejected |-> TRUE, value |-> NoResult, message |-> msg]

\* What the Census geocoder lists for a query it matches (best match first).
CensusMatches(addressString) ==
    <<[coordinates |-> [x |-> FormatInt(-70), y |-> FormatInt(41)],
       matchedAddress |-> addressString],
      [coordinates |-> [x |-> FormatInt(-71), y |-> FormatInt(42)],
       matchedAddress |-> addressString]>>

\* What Nominatim lists for a query it matches (limit=1).
NominatimResults(addressString) ==
    <<[lat |-> FormatInt(43), lon |-> FormatInt(-72), display_name |-> addressString]>>

\* The settlement of geocodeCensus's promise, by how the request ended.
geocodeCensus(outcome, addressString) ==
    CASE outcome = "match" ->
            LET match == CensusMatches(addressString)[1]
            IN  Resolved([latitude |-> parseFloat(match.coordinates.y),
                          longitude |-> parseFloat(match.coordinates.x),
                          display_name |-> match.matchedAddress,
                          source |-> "US Census",
                          approximate |-> "undefined"])
      [] outcome = "empty" -> Resolved(NoResult)
      [] outcome = "unparsable" -> Rejected("Failed to parse Census response")
      [] outcome = "error" -> Rejected("Census API request failed")
      [] outcome = "timeout" -> Rejected("Census API request timeout")

\* The settlement of geocodeNominatim's promise.
geocodeNominatim(outcome, addressString) ==
    CASE outcome = "match" ->
            LET res == NominatimResults(addressString)[1]
            IN  Resolved([latitude |-> parseFloat(res.lat),
                          longitude |-> parseFloat(res.lon),
                          display_name |-> res.display_name,
                          source |-> "Nominatim",
                          approximate |-> "undefined"])
      [] outcome = "empty" -> Resolved(NoResult)
      [] outcome = "unparsable" -> Rejected("Failed to parse Nominatim response")
      [] outcome = "error" -> Rejected("Nominatim API request failed")
      [] outcome = "timeout" -> Rejected("Nominatim API request timeout")

\* parts.push for every truthy part, then parts.join(', ')
buildAddressString(address) ==
    Join((IF Truthy(address.street) THEN <<address.street>> ELSE <<>>)
         \o (IF Truthy(address.city) THEN <<address.city>> ELSE <<>>)
         \o (IF Truthy(address.state) THEN <<address.state>> ELSE <<>>)
         \o (IF Truthy(address.postal_code) THEN <<address.postal_code>> ELSE <<>>),
         ", ")

\* `${cleaned.city}, ${cleaned.state}`
CityString(address) == address.city \o ", " \o address.state

\* Mutant of CityLevel: the result keeps the label of the provider.
CityLevel_KeepsLabel(coords) == [coords EXCEPT !.approximate = "true"]

\* Lines 255-256: the city-level result is marked and relabelled.
CityLevel(coords) ==
    [coords EXCEPT !.approximate = "true", !.source = "US Census (city-level)"]

\* The text PostgreSQL keeps for a JS number written to a DECIMAL(p, 8) column.
ToNumeric(num) ==
    IF num.kind = "number" THEN Join(FormatInt(num.value), "") \o ".00000000"
    ELSE "NaN"

-----------------------------------------------------------------------------
(* GeocodingResolver: geocodeAddress and the loop of geocodeAllAddresses *)

\* The store a pass finds: one farm with an address that an earlier pass has
\* geocoded, and up to MaxAddrs addresses without coordinates.
GeoAddressKnown == [Street1 |-> "9 Elm St", Street2 |-> NULL, City |-> "Wareham",
                    State |-> "MA", PostalCode |-> "02571", Country |-> "US"]
GeoAddressPlain == [Street1 |-> "123 Main St", Street2 |-> NULL, City |-> "Wareham",
                    State |-> "MA", PostalCode |-> "02571", Country |-> "US"]
GeoAddressPOBox == [Street1 |-> "PO Box 12", Street2 |-> NULL, City |-> "Carver",
                    State |-> "MA", PostalCode |-> "02330", Country |-> "US"]
GeoAddressPromoted == [Street1 |-> "P.O. Box 12", Street2 |-> "45 Bog Rd",
                       City |-> "Carver", State |-> "MA", PostalCode |-> "02330",
                       Country |-> "US"]
GeoAddressNoCity == [Street1 |-> "7 Pine", Street2 |-> NULL, City |-> NULL,
                     State |-> "MA", PostalCode |-> "02330", Country |-> "US"]
GeoAddressNoStreet == [Street1 |-> NULL, Street2 |-> NULL, City |-> "Wareham",
                       State |-> "MA", PostalCode |-> NULL, Country |-> "US"]

GeoAddresses == <<GeoAddressPlain, GeoAddressPOBox, GeoAddressPromoted,
                  GeoAddressNoCity, GeoAddressNoStreet>>

\* SET latitude = $1, longitude = $2
SetCoordinates(r, latitude, longitude) ==
    [r EXCEPT !.latitude = ToNumeric(latitude), !.longitude = ToNumeric(longitude)]

\* Mutant of UpdateCoordinates: the statement has no WHERE clause.
UpdateCoordinates_AllRows(d, latitude, longitude, id) ==
    [d EXCEPT !.farm_addresses = {SetCoordinates(r, latitude, longitude) : r \in @}]

\* UPDATE farm_addresses SET latitude = $1, longitude = $2 WHERE id = $3
UpdateCoordinates(d, latitude, longitude, id) ==
    [d EXCEPT !.farm_addresses =
        {IF r.id = id THEN SetCoordinates(r, latitude, longitude) ELSE r : r \in @}]

\* The addresses of positions ks of GeoAddresses, inserted in that order.
RECURSIVE InsertAddresses(_, _, _)
InsertAddresses(t, farmId, ks) ==
    IF ks = {} THEN t
    ELSE LET k == CHOOSE x \in ks : \A y \in ks : x <= y
         IN  InsertAddresses(insertOrUpdateFarmAddress(t, farmId, GeoAddresses[k]),
                             farmId, ks \ {k})

GeoStore(ks) ==
    LET t1 == insertOrUpdateFarm(Begin(EmptyDb, InitSeq))
        t2 == insertOrUpdateFarmAddress(t1, t1.ret, GeoAddressKnown)
        t3 == InsertAddresses(t2, t1.ret, ks)
    IN  [db |-> [t3.db EXCEPT !.farm_addresses =
                    {IF r.id = t2.ret THEN SetCoordinates(r, Number(41), Number(-70))
                     ELSE r : r \in @}],
         seq |-> t3.seq]

GeoStores ==
    {GeoStore(ks) : ks \in {x \in SUBSET (1..Len(GeoAddresses)) :
                                Cardinality(x) \in 1..MaxAddrs}}

InitGeocode ==
    /\ \E g \in GeoStores : db = g.db /\ seq = g.seq /\ before = g.db
    /\ ncalls = 0
    /\ call = NoCall
    /\ prev = NoCall
    /\ exported = NotExported
    /\ polygonString = <<>>
    /\ coordinates = NullCoordinates
    /\ decodePc = "idle"
    /\ InitClean
    /\ InitPass
    /\ InitPipe

\* Mutant of SelectAddresses: the SELECT has no WHERE clause.
SelectAddresses_All(d) == InIdOrder(d.farm_addresses)

\* Lines 283-291: the rows without a latitude or without a longitude, by id.
SelectAddresses(d) ==
    InIdOrder({r \in d.farm_addresses : r.latitude = NULL \/ r.longitude = NULL})

\* String.prototype.includes
Includes(str, sub) ==
    \E k \in 1..(Len(str) - Len(sub) + 1) : SubSeq(str, k, k + Len(sub) - 1) = sub

\* Mutant of sleep: the timer is not awaited.
sleep_NotAwaited(t, ms) == t

\* await sleep(ms): the time at which the caller goes on.
sleep(t, ms) == t + ms

\* How long a request takes to end in a given way.
Elapsed(outcome) == IF outcome = "timeout" THEN TIMEOUT_MS ELSE Latency

\* Mutant of Destroy: the timed-out request is left open.
Destroy_LeavesOpen(reqs, req) == reqs

\* req.destroy() of the timeout handler (lines 124-127, 186-189).
Destroy(reqs, req) == reqs \ {req}

\* The requests in flight once request req has ended with the given outcome.
Ended(reqs, req, outcome) ==
    IF outcome = "timeout" THEN Destroy(reqs, req) ELSE reqs \ {req}

\* Mutant of StepResult: a rejected provider call is not caught.
StepResult_Rethrows(settled) ==
    IF settled.rejected THEN "throw"
    ELSE IF settled.value # NoResult THEN "return" ELSE "continue"

\* Mutant of StepResult: a match does not end the chain.
StepResult_IgnoresMatch(settled) == "continue"

\* try { coords = await ...; if (coords) return coords } catch { log }:
\* what a step of the chain does with its provider call.
StepResult(settled) ==
    IF ~settled.rejected /\ settled.value # NoResult THEN "return" ELSE "continue"

\* geocodeAddress's own promise after a step, when the step ends the call.
StepReturn(settled, how) ==
    IF how = "throw" THEN Rejected(settled.message) ELSE Resolved(settled.value)

\* History entries.
RequestStep(provider, query) ==
    [step |-> "request", provider |-> provider, query |-> query, outcome |-> "pending"]
SleepStep == [step |-> "sleep", provider |-> "none", query |-> "", outcome |-> "elapsed"]

\* https.request(...).end() at time t, for the address of the loop.
Issue(provider, query, t) ==
    /\ inflight' = inflight \cup {[provider |-> provider, query |-> query, start |-> t,
                                   id |-> addresses[addrIdx].id]}
    /\ requests' = Append(requests, [provider |-> provider, id |-> addresses[addrIdx].id,
                                     start |-> t, end |-> -1])

\* The request of the step under way ends at time t.
Settle(outcome, t) ==
    /\ \E req \in inflight :
          /\ req.start = requests[Len(requests)].start
          /\ req.provider = requests[Len(requests)].provider
          /\ inflight' = Ended(inflight, req, outcome)
    /\ requests' = [requests EXCEPT ![Len(requests)].end = t]
    /\ trail' = [trail EXCEPT ![Len(trail)].outcome = outcome]
    /\ now' = t

\* Lines 282-298: connect, select, and leave when no address lacks coordinates.
StartPass ==
    /\ gpc = "start"
    /\ addresses' = SelectAddresses(db)
    /\ IF Len(addresses') = 0
       THEN gpc' = "done" /\ addrIdx' = 0
       ELSE gpc' = "resolve" /\ addrIdx' = 1
    /\ tally' = ZeroTally
    /\ failed' = <<>>
    /\ UNCHANGED <<frame, result, inflight, now, requests, trail, outcomes>>
    /\ UNCHANGED <<storeVars, exported, decodeVars, cleanVars, pipeVars>>

\* Lines 221-229: geocodeAddress is called for addresses[i]; it cleans the
\* address and, unless that fails, sends the full address to the Census.
ResolveBegin ==
    /\ gpc = "resolve"
    /\ LET c == cleanAddress(addresses[addrIdx])
       IN  IF c = NullAddress
           THEN /\ result' = Resolved([error |-> "P.O. Box only - no physical address"])
                /\ frame' = NoFrame
                /\ trail' = <<>>
                /\ gpc' = "record"
                /\ UNCHANGED <<inflight, requests>>
           ELSE /\ frame' = [cleaned |-> c, addressString |-> buildAddressString(c)]
                /\ Issue("census", frame'.addressString, now)
                /\ trail' = <<RequestStep("census", frame'.addressString)>>
                /\ result' = Resolved(NoResult)
                /\ gpc' = "census"
    /\ UNCHANGED <<addresses, addrIdx, tally, failed, now, outcomes>>
    /\ UNCHANGED <<storeVars, exported, decodeVars, cleanVars, pipeVars>>

\* Lines 229-235: the full-address Census request ends.
CensusSettles ==
    /\ gpc = "census"
    /\ \E outcome \in ProviderOutcomes :
          LET settled == geocodeCensus(outcome, frame.addressString)
              how == StepResult(settled)
          IN  /\ Settle(outcome, now + Elapsed(outcome))
              /\ IF how = "continue"
                 THEN gpc' = "sleep1" /\ UNCHANGED result
                 ELSE gpc' = "record" /\ result' = StepReturn(settled, how)
    /\ UNCHANGED <<addresses, addrIdx, frame, tally, failed, outcomes>>
    /\ UNCHANGED <<storeVars, exported, decodeVars, cleanVars, pipeVars>>

\* Lines 238-240: the delay, then the same string goes to Nominatim.
NominatimAfterDelay ==
    /\ gpc = "sleep1"
    /\ now' = sleep(now, DELAY_MS)
    /\ Issue("nominatim", frame.addressString, now')
    /\ trail' = trail \o <<SleepStep, RequestStep("nominatim", frame.addressString)>>
    /\ gpc' = "nominatim"
    /\ UNCHANGED <<addresses, addrIdx, frame, result, tally, failed, outcomes>>
    /\ UNCHANGED <<storeVars, exported, decodeVars, cleanVars, pipeVars>>

\* Lines 240-249: the Nominatim request ends; without a city and a state the
\* call returns null.
NominatimSettles ==
    /\ gpc = "nominatim"
    /\ \E outcome \in ProviderOutcomes :
          LET settled == geocodeNominatim(outcome, frame.addressString)
              how == StepResult(settled)
          IN  /\ Settle(outcome, now + Elapsed(outcome))
              /\ IF how = "continue"
                 THEN IF Truthy(frame.cleaned.city) /\ Truthy(frame.cleaned.state)
                      THEN gpc' = "sleep2" /\ UNCHANGED result
                      ELSE gpc' = "record" /\ result' = Resolved(NoResult)
                 ELSE gpc' = "record" /\ result' = StepReturn(settled, how)
    /\ UNCHANGED <<addresses, addrIdx, frame, tally, failed, outcomes>>
    /\ UNCHANGED <<storeVars, exported, decodeVars, cleanVars, pipeVars>>

\* Lines 250-253: the delay, then "city, state" goes to the Census.
CityAfterDelay ==
    /\ gpc = "sleep2"
    /\ now' = sleep(now, DELAY_MS)
    /\ Issue("census", CityString(frame.cleaned), now')
    /\ trail' = trail \o <<SleepStep, RequestStep("census", CityString(frame.cleaned))>>
    /\ gpc' = "city"
    /\ UNCHANGED <<addresses, addrIdx, frame, result, tally, failed, outcomes>>
    /\ UNCHANGED <<storeVars, exported, decodeVars, cleanVars, pipeVars>>

\* Lines 253-264: the city-level request ends and geocodeAddress returns.
CitySettles ==
    /\ gpc = "city"
    /\ \E outcome \in ProviderOutcomes :
          LET settled == geocodeCensus(outcome, CityString(frame.cleaned))
              how == StepResult(settled)
          IN  /\ Settle(outcome, now + Elapsed(outcome))
              /\ result' = CASE how = "return" -> Resolved(CityLevel(settled.value))
                             [] how = "continue" -> Resolved(NoResult)
                             [] how = "throw" -> Rejected(settled.message)
    /\ gpc' = "record"
    /\ UNCHANGED <<addresses, addrIdx, frame, tally, failed, outcomes>>
    /\ UNCHANGED <<storeVars, exported, decodeVars, cleanVars, pipeVars>>

\* result && !result.error
Usable(settled) ==
    /\ ~settled.rejected
    /\ settled.value # NoResult
    /\ "error" \notin DOMAIN settled.value

\* Mutant of Count: the Census count takes every label that has the
\* provider's name in it.
Count_IncludesCensus(t, value) ==
    [t EXCEPT !.approximateCount = @ + (IF value.approximate = "true" THEN 1 ELSE 0),
              !.census = @ + (IF Includes(value.source, "US Census") THEN 1 ELSE 0),
              !.nominatim = @ + (IF value.source = "Nominatim" THEN 1 ELSE 0),
              !.cityLevel = @ + (IF Includes(value.source, "city-level") THEN 1 ELSE 0),
              !.successCount = @ + 1]

\* Lines 334-341.
Count(t, value) ==
    [t EXCEPT !.approximateCount = @ + (IF value.approximate = "true" THEN 1 ELSE 0),
              !.census = @ + (IF value.source = "US Census" THEN 1 ELSE 0),
              !.nominatim = @ + (IF value.source = "Nominatim" THEN 1 ELSE 0),
              !.cityLevel = @ + (IF Includes(value.source, "city-level") THEN 1 ELSE 0),
              !.successCount = @ + 1]

\* failed.push of lines 346-351 and 357-362.
FailedEntry(address, reason) ==
    [id |-> address.id, address |-> buildAddressString(address),
     street |-> address.street, reason |-> reason]

\* i++ and the loop test.
NextAddress ==
    /\ addrIdx' = addrIdx + 1
    /\ gpc' = IF addrIdx = Len(addresses) THEN "done" ELSE "resolve"

\* History entry: what the loop did with an address.
Handled(address, value, stored) ==
    [id |-> address.id,
     latitude |-> IF value = NoResult THEN NULL ELSE ToNumeric(value.latitude),
     longitude |-> IF value = NoResult THEN NULL ELSE ToNumeric(value.longitude),
     source |-> IF value = NoResult THEN NULL ELSE value.source,
     approximate |-> IF value = NoResult THEN NULL ELSE value.approximate,
     stored |-> stored]

\* Lines 318-341 and 354-363: the coordinates are written with one UPDATE of
\* its own; when the statement throws, the catch of the loop counts a failure.
Persist ==
    /\ gpc = "record"
    /\ Usable(result)
    /\ \E ok \in BOOLEAN :
          IF ok
          THEN /\ db' = UpdateCoordinates(db, result.value.latitude,
                                          result.value.longitude, addresses[addrIdx].id)
               /\ tally' = Count(tally, result.value)
               /\ failed' = failed
               /\ outcomes' = Append(outcomes,
                                     Handled(addresses[addrIdx], result.value, TRUE))
          ELSE /\ db' = db
               /\ tally' = [tally EXCEPT !.failCount = @ + 1]
               /\ failed' = Append(failed, FailedEntry(addresses[addrIdx], "connection lost"))
               /\ outcomes' = Append(outcomes,
                                     Handled(addresses[addrIdx], result.value, FALSE))
    /\ NextAddress
    /\ UNCHANGED <<addresses, frame, result, inflight, now, requests, trail>>
    /\ UNCHANGED <<seq, ncalls, call, prev, before, exported, decodeVars, cleanVars,
                   pipeVars>>

\* Lines 342-363: no result, an error result, or a rejected geocodeAddress.
RecordFailure ==
    /\ gpc = "record"
    /\ ~Usable(result)
    /\ tally' = [tally EXCEPT !.failCount = @ + 1]
    /\ failed' = Append(failed, FailedEntry(addresses[addrIdx],
            IF result.rejected THEN result.message
            ELSE IF result.value # NoResult THEN result.value.error
            ELSE "No results from any geocoder"))
    /\ outcomes' = Append(outcomes, Handled(addresses[addrIdx], NoResult, FALSE))
    /\ NextAddress
    /\ UNCHANGED <<addresses, frame, result, inflight, now, requests, trail>>
    /\ UNCHANGED <<storeVars, exported, decodeVars, cleanVars, pipeVars>>

\* The process stops before the pass is over (killed, or process.exit(1) of
\* line 406); its open requests go with it.
Exit ==
    /\ gpc \notin {"done", "exit"}
    /\ gpc' = "exit"
    /\ inflight' = {}
    /\ UNCHANGED <<addresses, addrIdx, frame, result, tally, failed, now,
                   requests, trail, outcomes>>
    /\ UNCHANGED <<storeVars, exported, decodeVars, cleanVars, pipeVars>>

NextGeocode ==
    \/ StartPass
    \/ ResolveBegin
    \/ CensusSettles
    \/ NominatimAfterDelay
    \/ NominatimSettles
    \/ CityAfterDelay
    \/ CitySettles
    \/ Persist
    \/ RecordFailure
    \/ Exit

SpecGeocode == InitGeocode /\ [][NextGeocode]_vars

\* The scheduling of a call: a provider request settles (it returns, it
\* fails or its 10 s timer fires) and a timer of sleep fires, so a step of
\* geocodeAddress that is enabled is taken unless the process stops.
\* (At most one of the five steps is enabled at a time.)
ResolveStep ==
    \/ CensusSettles
    \/ NominatimAfterDelay
    \/ NominatimSettles
    \/ CityAfterDelay
    \/ CitySettles

\* A pass over a store in which one address lacks coordinates: one call of
\* geocodeAddress.
InitResolve == InitGeocode /\ Len(SelectAddresses(db)) = 1

SpecResolve == InitResolve /\ [][NextGeocode]_vars /\ WF_vars(ResolveStep)

-----------------------------------------------------------------------------
(* Name reconciliation: updateFarmNames (updateFarmNames.js)                 *)

\* What GrowerList2024.json may hold: no grower, the grower of contract 1001,
\* and a list in which the renumbered contract has a grower of its own whose
\* name differs in its punctuation only.
GrowerMoss == [extBpId |-> "1001", bpName |-> "Moss & Sons"]
GrowerMossR == [extBpId |-> "1001-R", bpName |-> "Moss-Sons"]
GrowerNameless == [extBpId |-> "1001-R", bpName |-> ""]
GrowerLists == {<<>>, <<GrowerMoss>>, <<GrowerMoss, GrowerMossR>>, <<GrowerNameless>>}

\* contractToFarmName.get(contractNumber) after the loop of lines 24-29: the
\* name of the last grower of the list with that number, both fields truthy;
\* NULL stands for undefined.
RECURSIVE FarmNameOf(_, _)
FarmNameOf(growerList, contractNumber) ==
    IF growerList = <<>> THEN NULL
    ELSE LET grower == growerList[Len(growerList)]
         IN  IF Truthy(grower.extBpId) /\ Truthy(grower.bpName)
                /\ grower.extBpId = contractNumber
             THEN grower.bpName
             ELSE FarmNameOf(SubSeq(growerList, 1, Len(growerList) - 1), contractNumber)

\* The rows of lines 47-52: each contract with the name its farm has when the
\* SELECT runs.  The ORDER BY is not modelled: every contract has a farm of its
\* own, so the updates of the loop do not meet.
ContractRows(d) ==
    LET cs == InIdOrder(d.contracts)
    IN  [i \in 1..Len(cs) |->
            LET farms == RowsById(d.farms, cs[i].farm_id)
            IN  [contract_id |-> cs[i].id, contract_number |-> cs[i].contract_number,
                 farm_id |-> cs[i].farm_id,
                 current_farm_name |->
                    IF farms = {} THEN NULL ELSE (CHOOSE f \in farms : TRUE).name]]

\* Mutant of SetFarmName: the UPDATE has no WHERE clause.
SetFarmName_AllFarms(d, farmName, farmId) ==
    [d EXCEPT !.farms = {[f EXCEPT !.name = farmName] : f \in @}]

\* Lines 80-86: UPDATE farms SET name = $1 WHERE id = $2.
SetFarmName(d, farmName, farmId) ==
    [d EXCEPT !.farms = {IF f.id = farmId THEN [f EXCEPT !.name = farmName] ELSE f : f \in @}]

\* The loop of lines 64-89 from row i on; acc holds the tables and the counts.
RECURSIVE NameContracts(_, _, _, _)
NameContracts(rows, growerList, i, acc) ==
    IF i > Len(rows) THEN acc
    ELSE LET farmName == FarmNameOf(growerList, rows[i].contract_number)
         IN  IF farmName = NULL
             THEN NameContracts(rows, growerList, i + 1,
                    [acc EXCEPT !.notFoundCount = @ + 1])
             ELSE IF rows[i].current_farm_name = farmName
             THEN NameContracts(rows, growerList, i + 1,
                    [acc EXCEPT !.alreadySetCount = @ + 1])
             ELSE NameContracts(rows, growerList, i + 1,
                    [acc EXCEPT !.db = SetFarmName(@, farmName, rows[i].farm_id),
                                !.updatedCount = @ + 1])

updateFarmNames(d, growerList) ==
    NameContracts(ContractRows(d), growerList, 1,
        [db |-> d, updatedCount |-> 0, notFoundCount |-> 0, alreadySetCount |-> 0])

\* One pass over the store as it is, with the list the file holds then;
\* `passes` counts the passes since the last ingestion.
UpdateFarmNames ==
    /\ naming.passes < MaxPasses
    /\ \E growerList \in GrowerLists :
       \E r \in {updateFarmNames(db, growerList)} :
          /\ db' = r.db
          /\ naming' = [done |-> TRUE, passes |-> naming.passes + 1,
                        growerList |-> growerList,
                        updatedCount |-> r.updatedCount,
                        notFoundCount |-> r.notFoundCount,
                        alreadySetCount |-> r.alreadySetCount]
    /\ exported' = NotExported
    /\ byFarm' = NotExportedByFarm
    /\ points' = NoPoints
    /\ UNCHANGED <<seq, ncalls, call, prev, before, run>>
    /\ UNCHANGED decodeVars
    /\ UNCHANGED cleanVars
    /\ UNCHANGED geoVars

-----------------------------------------------------------------------------
(* FeatureExporter: exportBedsByFarm (one document per farm)                 *)

\* [a-z0-9] under the /i flag.
IsAlnum(c) ==
    \/ \E k \in 1..26 : Char(UpperCase, k) = c \/ Char(LowerCase, k) = c
    \/ \E k \in 1..10 : Digit[k] = c

\* .replace(/[^a-z0-9]/gi, '_')
RECURSIVE ReplaceInvalid(_)
ReplaceInvalid(name) ==
    IF name = "" THEN ""
    ELSE (IF IsAlnum(Char(name, 1)) THEN Char(name, 1) ELSE "_")
            \o ReplaceInvalid(SubSeq(name, 2, Len(name)))

\* .replace(/_+/g, '_')
RECURSIVE CollapseUnderscores(_)
CollapseUnderscores(name) ==
    IF Len(name) < 2 THEN name
    ELSE IF Char(name, 1) = "_" /\ Char(name, 2) = "_"
         THEN CollapseUnderscores(SubSeq(name, 2, Len(name)))
         ELSE Char(name, 1) \o CollapseUnderscores(SubSeq(name, 2, Len(name)))

\* .replace(/^_|_$/g, ''): one underscore off each end.
TrimUnderscores(name) ==
    LET t == IF name # "" /\ Char(name, 1) = "_" THEN SubSeq(name, 2, Len(name)) ELSE name
    IN  IF t # "" /\ Char(t, Len(t)) = "_" THEN SubSeq(t, 1, Len(t) - 1) ELSE t

\* sanitizeFilename (lines 47-52)
sanitizeFilename(name) == TrimUnderscores(CollapseUnderscores(ReplaceInvalid(name)))

\* The farms of the query of lines 70-82: those with a contract that has a bed
\* that has a shape whose value is not NULL.
FarmsWithBeds(d) ==
    LET rows == ExportRows(d)
    IN  {f \in d.farms : \E i \in 1..Len(rows) : rows[i].farm_id = f.id}

\* ORDER BY f.name leaves the order of farms of one name open, and no property
\* stated here depends on the order of the others: the farms come in any order.
FarmOrders(d) ==
    LET farms == FarmsWithBeds(d)
    IN  {order \in [1..Cardinality(farms) -> farms] :
            \A i, j \in DOMAIN order : i # j => order[i] # order[j]}

\* The rows of the query of lines 112-137 for farm $1 (ORDER BY not modelled).
FarmRows(d, farmId) == SelectSeq(ExportRows(d), LAMBDA row : row.farm_id = farmId)

\* The feature of one row (lines 177-197).
FarmFeature(row, coords) ==
    [type |-> "Feature",
     properties |->
        [bed_id |-> row.bed_id, bed_name |-> row.bed_name,
         handler_section_name |-> row.handler_section_name,
         acres |-> row.acres, variety |-> row.variety,
         plant_date |-> IsoDate(row.plant_date),
         bed_block_name |-> row.bed_block_name,
         contract_number |-> row.contract_number, crop_year |-> row.crop_year,
         fruit_types |-> Join(FruitTypes(row), ", "),
         is_organic |-> row.fruit_type_organic,
         is_export |-> row.fruit_type_export],
     geometry |-> [type |-> "Polygon", coordinates |-> coords]]

\* The loop of lines 158-201: the features of one farm's rows from row i on.
RECURSIVE FarmFeatures(_, _)
FarmFeatures(rows, i) ==
    IF i > Len(rows) THEN <<>>
    ELSE LET coords == parsePolygonToGeoJSON(rows[i].shape_value)
         IN  IF Falsy(coords) THEN FarmFeatures(rows, i + 1)
             ELSE <<FarmFeature(rows[i], coords)>> \o FarmFeatures(rows, i + 1)

\* fs.writeFileSync: the file of that name is created or replaced.
WriteFile(files, filename, document) ==
    {f \in files : f.filename # filename}
        \cup {[filename |-> filename, document |-> document]}

\* One turn of the loop of lines 106-213.
ExportFarm(d, farm, acc) ==
    LET farmName == IF Truthy(farm.name) THEN farm.name ELSE "Unknown_Farm"
        filename == sanitizeFilename(farmName) \o ".geojson"
        features == FarmFeatures(FarmRows(d, farm.id), 1)
        geojson == [type |-> "FeatureCollection",
                    name |-> farmName \o " - Bed Polygons", features |-> features]
    IN  [acc EXCEPT !.docs = Append(@, [farm_id |-> farm.id, filename |-> filename,
                                        features |-> features]),
                    !.files = WriteFile(@, filename, geojson),
                    !.totalFiles = @ + 1,
                    !.totalBeds = @ + Len(features)]

RECURSIVE ExportFarms(_, _, _, _)
ExportFarms(d, order, i, acc) ==
    IF i > Len(order) THEN acc
    ELSE ExportFarms(d, order, i + 1, ExportFarm(d, order[i], acc))

\* exportBedsByFarm: with no farm the process exits and writes nothing.
exportBedsByFarm(d, order) ==
    ExportFarms(d, order, 1, [NotExportedByFarm EXCEPT !.done = TRUE])

ExportByFarm ==
    /\ ~byFarm.done
    /\ \E order \in FarmOrders(db) : byFarm' = exportBedsByFarm(db, order)
    /\ UNCHANGED <<run, points, naming>>
    /\ UNCHANGED <<storeVars, exported>>
    /\ UNCHANGED decodeVars
    /\ UNCHANGED cleanVars
    /\ UNCHANGED geoVars

\* The responses of the runs that are followed by reconciliation and export.
PipeResponses == {<<ParcelA>>, <<ParcelD>>, <<ParcelA, ParcelB>>, <<ParcelC>>}

IngestPipe == IngestOf(PipeResponses, {0})

NextByFarm == IngestPipe \/ UpdateFarmNames \/ ExportAll \/ ExportByFarm

SpecByFarm == Init /\ [][NextByFarm]_vars

-----------------------------------------------------------------------------
(* The geocoding pass as one step, for the runs in which it comes between    *)
(* ingestions and exports                                                    *)

\* How the provider calls of one geocodeAddress call end, in the order of the
\* chain (a later call is made only when the earlier ones gave no match): a
\* street-level match of the Census, one of Nominatim, a city-level match
\* after two failures, no match at all.
Chains ==
    {<<"match", "empty", "empty">>, <<"empty", "match", "empty">>,
     <<"error", "timeout", "match">>, <<"empty", "empty", "empty">>}

\* One step of the chain from step k on: geocodeAddress's promise.
RECURSIVE ChainFrom(_, _, _)
ChainFrom(c, chain, k) ==
    IF k = 3 /\ ~(Truthy(c.city) /\ Truthy(c.state)) THEN Resolved(NoResult)
    ELSE LET settled == CASE k = 1 -> geocodeCensus(chain[1], buildAddressString(c))
                          [] k = 2 -> geocodeNominatim(chain[2], buildAddressString(c))
                          [] k = 3 -> geocodeCensus(chain[3], CityString(c))
             how == StepResult(settled)
         IN  IF how = "continue"
             THEN IF k = 3 THEN Resolved(NoResult) ELSE ChainFrom(c, chain, k + 1)
             ELSE IF how = "throw" THEN Rejected(settled.message)
             ELSE IF k = 3 THEN Resolved(CityLevel(settled.value))
             ELSE Resolved(settled.value)

\* geocodeAddress (lines 219-265), its provider calls ending as `chain` says.
geocodeAddress(address, chain) ==
    LET c == cleanAddress(address)
    IN  IF c = NullAddress
        THEN Resolved([error |-> "P.O. Box only - no physical address"])
        ELSE ChainFrom(c, chain, 1)

\* The loop of lines 310-364 from row i on; acc holds the tables, the counts
\* and the failed list.
RECURSIVE GeocodeRows(_, _, _, _)
GeocodeRows(rows, chains, i, acc) ==
    IF i > Len(rows) THEN acc
    ELSE LET settled == geocodeAddress(rows[i], chains[i])
         IN  IF Usable(settled)
             THEN GeocodeRows(rows, chains, i + 1,
                    [acc EXCEPT !.db = UpdateCoordinates(@, settled.value.latitude,
                                                         settled.value.longitude, rows[i].id),
                                !.tally = Count(@, settled.value)])
             ELSE GeocodeRows(rows, chains, i + 1,
                    [acc EXCEPT !.tally.failCount = @ + 1,
                                !.failed = Append(@, FailedEntry(rows[i],
                                    IF settled.rejected THEN settled.message
                                    ELSE IF settled.value # NoResult THEN settled.value.error
                                    ELSE "No results from any geocoder"))])

\* geocodeAllAddresses (lines 267-408) on tables d.
geocodeAllAddresses(d, chains) ==
    GeocodeRows(SelectAddresses(d), chains, 1,
                [db |-> d, tally |-> ZeroTally, failed |-> <<>>])

\* One whole pass.  The histories of the step-by-step specification (requests,
\* trail, outcomes, now) are not kept here.
GeocodePass ==
    /\ gpc = "start"
    /\ \E rows \in {SelectAddresses(db)} :
       \E chains \in [1..Len(rows) -> Chains] :
       \E r \in {geocodeAllAddresses(db, chains)} :
          /\ db' = r.db
          /\ addresses' = rows
          /\ addrIdx' = Len(rows) + 1
          /\ tally' = r.tally
          /\ failed' = r.failed
    /\ gpc' = "done"
    /\ exported' = NotExported
    /\ byFarm' = NotExportedByFarm
    /\ points' = NoPoints
    /\ UNCHANGED <<frame, result, inflight, now, requests, trail, outcomes>>
    /\ UNCHANGED <<seq, ncalls, call, prev, before, run, naming>>
    /\ UNCHANGED decodeVars
    /\ UNCHANGED cleanVars

-----------------------------------------------------------------------------
(* FeatureExporter: exportToGeoJSON (one point per geocoded farm address)    *)

\* A column text as the characters parseFloat reads.
Chars(str) == [i \in 1..Len(str) |-> Char(str, i)]

\* The rows farms LEFT JOIN contracts LEFT JOIN beds has for one farm (lines
\* 44-46): a contract with each of its beds, a contract without beds alone, a
\* farm without contracts alone; NULL stands for a missing contract, and
\* `bed` tells whether the row has a bed.  The contracts come by id: a farm
\* has one contract at most, its own ingestion's.
JoinedRows(d, farmId) ==
    LET cs == InIdOrder({c \in d.contracts : c.farm_id = farmId})
        OfContract(c) ==
            LET bs == InIdOrder({b \in d.beds : b.contract_id = c.id})
            IN  IF bs = <<>>
                THEN <<[contract_number |-> c.contract_number, bed |-> FALSE, acres |-> 0]>>
                ELSE [i \in 1..Len(bs) |->
                        [contract_number |-> c.contract_number, bed |-> TRUE,
                         acres |-> bs[i].acres]]
        Flat[i \in 0..Len(cs)] == IF i = 0 THEN <<>> ELSE Flat[i - 1] \o OfContract(cs[i])
    IN  IF cs = <<>> THEN <<[contract_number |-> NULL, bed |-> FALSE, acres |-> 0]>>
        ELSE Flat[Len(cs)]

\* The SUM of no value: SQL's NULL, a null in the row.
NoSum == [kind |-> "null", value |-> 0]

\* Mutant of TotalAcres: the sum is not grouped by farm.
TotalAcres_AllFarms(d, farmId) ==
    LET bs == InIdOrder(d.beds)
        Sum[i \in 0..Len(bs)] == IF i = 0 THEN 0 ELSE Sum[i - 1] + bs[i].acres
    IN  IF bs = <<>> THEN NoSum ELSE Number(Sum[Len(bs)])

\* SUM(b.acres) of line 43: NULL when no row has acres.
TotalAcres(d, farmId) ==
    LET rows == JoinedRows(d, farmId)
        Sum[i \in 0..Len(rows)] ==
            IF i = 0 THEN 0
            ELSE Sum[i - 1] + (IF rows[i].bed THEN rows[i].acres ELSE 0)
    IN  IF \A i \in 1..Len(rows) : ~rows[i].bed THEN NoSum ELSE Number(Sum[Len(rows)])

\* array_agg(c.contract_number ORDER BY c.contract_number) of line 42, and the
\* join of line 104, in which a null element is the empty string.
ContractNumbersOf(d, farmId) ==
    LET rows == JoinedRows(d, farmId)
    IN  Join([i \in 1..Len(rows) |->
                IF rows[i].contract_number = NULL THEN "" ELSE rows[i].contract_number],
             ", ")

\* The rows of the query (lines 37-67): the addresses with a latitude and a
\* longitude, each with the aggregates of its farm (ORDER BY not modelled).
PointRows(d) ==
    LET geocoded == InIdOrder({fa \in d.farm_addresses :
                                 fa.latitude # NULL /\ fa.longitude # NULL})
    IN  [i \in 1..Len(geocoded) |->
            LET fa == geocoded[i]
                farms == RowsById(d.farms, fa.farm_id)
            IN  [farm_id |-> fa.farm_id,
                 farm_name |-> (CHOOSE f \in farms : TRUE).name,
                 contract_numbers |-> ContractNumbersOf(d, fa.farm_id),
                 total_acres |-> TotalAcres(d, fa.farm_id),
                 address_id |-> fa.id, street |-> fa.street, street2 |-> fa.street2,
                 city |-> fa.city, state |-> fa.state, postal_code |-> fa.postal_code,
                 country |-> fa.country,
                 latitude |-> fa.latitude, longitude |-> fa.longitude]]

\* Lines 94-101.
FullAddress(row) ==
    Join((IF Truthy(row.street) THEN <<row.street>> ELSE <<>>)
            \o (IF Truthy(row.street2) THEN <<row.street2>> ELSE <<>>)
            \o (IF Truthy(row.city) THEN <<row.city>> ELSE <<>>)
            \o (IF Truthy(row.state) THEN <<row.state>> ELSE <<>>)
            \o (IF Truthy(row.postal_code) THEN <<row.postal_code>> ELSE <<>>)
            \o (IF Truthy(row.country) THEN <<row.country>> ELSE <<>>), ", ")

\* The feature of one row (lines 109-128).  Acres are whole numbers in this
\* model, which toFixed(2) and parseFloat give back as they are.
PointFeature(row) ==
    [type |-> "Feature",
     properties |->
        [farm_id |-> row.farm_id,
         farm_name |-> IF Truthy(row.farm_name) THEN row.farm_name ELSE "Unknown Farm",
         contract_numbers |-> row.contract_numbers,
         total_acres |-> IF row.total_acres = NoSum THEN 0 ELSE row.total_acres.value,
         address |-> FullAddress(row),
         city |-> row.city, state |-> row.state, postal_code |-> row.postal_code],
     geometry |-> [type |-> "Point",
                   coordinates |-> <<parseFloat(Chars(row.longitude)),
                                     parseFloat(Chars(row.latitude))>>]]

\* exportToGeoJSON: with no row the process exits and writes no document.
exportToGeoJSON(d) ==
    LET rows == PointRows(d)
    IN  [done |-> TRUE, written |-> Len(rows) > 0,
         features |-> [i \in 1..Len(rows) |-> PointFeature(rows[i])]]

ExportPoints ==
    /\ ~points.done
    /\ points' = exportToGeoJSON(db)
    /\ UNCHANGED <<run, byFarm, naming>>
    /\ UNCHANGED <<storeVars, exported>>
    /\ UNCHANGED decodeVars
    /\ UNCHANGED cleanVars
    /\ UNCHANGED geoVars

\* The responses of the runs that are followed by geocoding.
PointResponses == {<<ParcelA>>, <<ParcelD>>, <<ParcelA, ParcelD>>}

\* An ingestion while no geocoding pass is under way.
IngestPoints == IngestOf(PointResponses, {0})

NextPoints == IngestPoints \/ GeocodePass \/ ExportPoints

SpecPoints == Init /\ [][NextPoints]_vars

-----------------------------------------------------------------------------
(* The three programs that write the store, in any order: ingestion (with    *)
(* batches that fail), the geocoding pass and name reconciliation            *)

StoreResponses == {<<ParcelA>>, <<ParcelC>>, <<ParcelD>>}

IngestStore == IngestOf(StoreResponses, {0, 1})

NextStore == IngestStore \/ GeocodePass \/ UpdateFarmNames

SpecStore == Init /\ [][NextStore]_vars

-----------------------------------------------------------------------------
(* The fetch run: fetchAndSave and the loop of the main block                *)
(* (fetchContracts.js)                                                       *)

\* The contract numbers the input file may list, and the crop year asked for.
ContractNumbers == {"1001", "1002"}
CropYears == {2024}

\* readContractNumbers returns the non-empty trimmed lines of the file, in
\* the order of the file; a number may be listed twice.
ContractLists == UNION {[1..n -> ContractNumbers] : n \in 0..MaxContracts}

\* What the API answers for a contract number: the contract it belongs to.
Upstream(contractNumber) ==
    [ContractId |-> IF contractNumber = "1001" THEN "c1" ELSE "c2",
     ContractNumber |-> contractNumber]

\* How the first step of fetchAndSave can end: the request succeeds and the
\* file is written ("ok"), the API answers with a non-2xx status, the request
\* fails without a response, or the response cannot be written to disk.
ApiOutcomes == {"ok", "status", "network", "disk"}

\* The responses of the run: an empty one, one that commits, and one whose
\* record lacks the bed-history identifier (a NOT NULL violation).
RunResponses == {<<>>, <<ParcelA>>, <<ParcelE>>}

\* How the database step can fail from outside: -1 when pool.connect() throws,
\* otherwise the `fault` of insertIntoDatabase.
RunFaults == {-1, 0, 1}

\* The outer catch (lines 360-368).
ApiFailure(api) ==
    [success |-> FALSE,
     statusCode |-> IF api = "status" THEN "500" ELSE "N/A",
     error |-> api]

\* The result.db of lines 334-357: what insertIntoDatabase returned, or the
\* message of what it threw.
DbResult(connected, r) ==
    IF ~connected THEN [success |-> FALSE, error |-> "connect"]
    ELSE IF r.success THEN [success |-> TRUE, stats |-> r.stats]
    ELSE [success |-> FALSE, error |-> "rolled back", stats |-> r.stats]

\* A fetchAndSave that lets the failure of the API request escape.
fetchAndSave_Rethrows(db0, seq0, contractNumber, cropYear, api, data, fault) ==
    LET r == insertIntoDatabase(db0, seq0, data, cropYear, IF fault < 0 THEN 0 ELSE fault)
    IN  [thrown |-> api # "ok", attempted |-> api = "ok",
         db |-> IF api = "ok" /\ fault >= 0 THEN r.db ELSE db0,
         seq |-> IF api = "ok" /\ fault >= 0 THEN r.seq ELSE seq0,
         result |-> [contractNumber |-> contractNumber,
                     api |-> [success |-> api = "ok"],
                     db |-> [success |-> api = "ok" /\ fault >= 0 /\ r.success]]]

\* fetchAndSave (lines 300-371).  Both steps run inside try blocks, so nothing
\* is thrown to the caller; `attempted` tells whether insertIntoDatabase was
\* called.
fetchAndSave(db0, seq0, contractNumber, cropYear, api, data, fault) ==
    LET blank == [contractNumber |-> contractNumber,
                   api |-> [success |-> FALSE], db |-> [success |-> FALSE]]
        r == insertIntoDatabase(db0, seq0, data, cropYear, fault)
        fetched == [success |-> TRUE, recordCount |-> Len(data),
                    filePath |-> <<cropYear, contractNumber>>]
    IN  IF api # "ok"
        THEN [thrown |-> FALSE, attempted |-> FALSE, db |-> db0, seq |-> seq0,
              result |-> [blank EXCEPT !.api = ApiFailure(api)]]
        ELSE IF fault < 0
        THEN [thrown |-> FALSE, attempted |-> TRUE, db |-> db0, seq |-> seq0,
              result |-> [blank EXCEPT !.api = fetched,
                                        !.db = DbResult(FALSE, r)]]
        ELSE [thrown |-> FALSE, attempted |-> TRUE, db |-> r.db, seq |-> r.seq,
              result |-> [blank EXCEPT !.api = fetched,
                                        !.db = DbResult(TRUE, r)]]

\* Lines 403-406: how many results fall in each class.
Summary(results) ==
    LET Count_(P(_)) == Cardinality({i \in 1..Len(results) : P(results[i])})
        ApiOk(r) == r.api.success
        ApiKo(r) == ~r.api.success
        DbOk(r) == r.db.success
        DbKo(r) == r.api.success /\ ~r.db.success
    IN  [apiSuccess |-> Count_(ApiOk), apiFailed |-> Count_(ApiKo),
         dbSuccess |-> Count_(DbOk), dbFailed |-> Count_(DbKo)]

\* The run starts on an empty store with the list and the crop year it was given.
InitRun ==
    /\ InitStore
    /\ InitClean
    /\ InitPass
    /\ polygonString = <<>>
    /\ coordinates = NullCoordinates
    /\ decodePc = "idle"
    /\ byFarm = NotExportedByFarm
    /\ points = NoPoints
    /\ naming = NoNaming
    /\ \E list \in ContractLists, cropYear \in CropYears :
          run = [contracts |-> list, cropYear |-> cropYear, pc |-> "loop",
                 next |-> 1, results |-> <<>>, log |-> <<>>, summary |-> <<>>]

\* One turn of the loop of lines 396-400: fetchAndSave for the next contract
\* of the list, its result pushed.  An exception out of fetchAndSave would end
\* the process, the loop having no handler of its own.
FetchAndSave ==
    /\ run.pc = "loop"
    /\ run.next <= Len(run.contracts)
    /\ \E api \in ApiOutcomes, data \in RunResponses, fault \in RunFaults :
        /\ fault <= Len(data) + 1
        /\ data = <<>> => fault <= 0
        /\ api # "ok" => data = <<>> /\ fault = 0
        /\ \E contract \in {run.contracts[run.next]} :
           \E contractData \in {Payload(Upstream(contract), data)} :
           \E r \in {fetchAndSave(db, seq, contract, run.cropYear, api, contractData, fault)} :
           \E entry \in {[contract |-> contract, api |-> api, attempted |-> r.attempted,
                          committed |-> r.db # db]} :
               /\ db' = r.db
               /\ seq' = r.seq
               /\ ncalls' = IF r.attempted THEN ncalls + 1 ELSE ncalls
               /\ call' = IF r.attempted
                          THEN [op |-> "ingest", contractData |-> contractData,
                                cropYear |-> run.cropYear,
                                success |-> r.result.db.success,
                                stats |-> IF "stats" \in DOMAIN r.result.db
                                          THEN r.result.db.stats ELSE NoCall.stats]
                          ELSE call
               /\ prev' = IF r.attempted THEN call ELSE prev
               /\ before' = IF r.attempted THEN db ELSE before
               /\ run' = IF r.thrown
                         THEN [run EXCEPT !.pc = "crashed", !.log = Append(@, entry)]
                         ELSE [run EXCEPT !.next = @ + 1,
                                          !.results = Append(@, r.result),
                                          !.log = Append(@, entry)]
    /\ exported' = NotExported
    /\ byFarm' = NotExportedByFarm
    /\ points' = NoPoints
    /\ UNCHANGED naming
    /\ UNCHANGED decodeVars
    /\ UNCHANGED cleanVars
    /\ UNCHANGED geoVars

\* After the loop: the statistics of lines 403-406.
Summarize ==
    /\ run.pc = "loop"
    /\ run.next > Len(run.contracts)
    /\ run' = [run EXCEPT !.pc = "done", !.summary = Summary(run.results)]
    /\ UNCHANGED <<byFarm, points, naming>>
    /\ UNCHANGED <<storeVars, exported>>
    /\ UNCHANGED decodeVars
    /\ UNCHANGED cleanVars
    /\ UNCHANGED geoVars

NextRun == FetchAndSave \/ Summarize

SpecRun == InitRun /\ [][NextRun]_vars

-----------------------------------------------------------------------------
(* Properties of insertIntoDatabase *)

Ingested == call.op = "ingest"
Committed == Ingested /\ call.success
Failed == Ingested /\ ~call.success

\* The records of the last call, by position.
Recs == call.contractData

\* Positions of the records that are the last of their bed in the payload.
LastOfBed == {i \in 1..Len(Recs) :
                \A j \in (i + 1)..Len(Recs) : Recs[j].BedHistoryId # Recs[i].BedHistoryId}

ShapesOf(d, bedId) == {s \in d.shapes : s.bed_id = bedId}
ShapeEntry(s) == [type |-> s.shape_type, value |-> s.shape_value]
Range(f) == {f[i] : i \in DOMAIN f}

\* C1: a call of insertIntoDatabase in which a step fails (empty payload,
\* malformed record, failed statement) leaves every table as it was.
C1_FailedBatchCommitsNothing == Failed => db = before

\* A batch fails at its last record after an earlier record's rows were
\* written, the last record being malformed, on a store that is not empty.
C1_Witness ==
    /\ Failed
    /\ Len(Recs) = MaxRecs
    /\ Recs[Len(Recs)].BedHistoryId = NULL
    /\ call.stats.beds = Len(Recs) - 1
    /\ call.stats.shapes >= 1
    /\ before.beds # {}

\* The values of a table's rows, surrogate ids and references left out.
AddressValues(d) == {[street |-> r.street, street2 |-> r.street2, city |-> r.city,
                      state |-> r.state, postal_code |-> r.postal_code,
                      country |-> r.country, latitude |-> r.latitude,
                      longitude |-> r.longitude] : r \in d.farm_addresses}
BedBlockValues(d) == {r.name : r \in d.bed_blocks}
BedValues(d) == {[api_bed_history_id |-> r.api_bed_history_id, bed_name |-> r.bed_name,
                  handler_section_name |-> r.handler_section_name, acres |-> r.acres,
                  variety |-> r.variety, plant_date |-> r.plant_date,
                  fruit_type_export |-> r.fruit_type_export,
                  fruit_type_global_gap |-> r.fruit_type_global_gap,
                  fruit_type_organic |-> r.fruit_type_organic,
                  fruit_type_processed |-> r.fruit_type_processed,
                  fruit_type_white |-> r.fruit_type_white] : r \in d.beds}
ShapeValues(d) == {ShapeEntry(r) : r \in d.shapes}

\* The last two calls committed the same payload for the same crop year.
Rerun ==
    /\ Committed
    /\ prev.op = "ingest" /\ prev.success
    /\ prev.contractData = call.contractData
    /\ prev.cropYear = call.cropYear

\* C2: running the same payload for the same crop year a second time leaves
\* as many Bed, BedBlock, Address and Shape rows, with the same values, as the
\* first run left.
C2_RerunLeavesSameRows ==
    Rerun =>
        /\ Cardinality(db.beds) = Cardinality(before.beds)
        /\ Cardinality(db.bed_blocks) = Cardinality(before.bed_blocks)
        /\ Cardinality(db.farm_addresses) = Cardinality(before.farm_addresses)
        /\ Cardinality(db.shapes) = Cardinality(before.shapes)
        /\ BedValues(db) = BedValues(before)
        /\ BedBlockValues(db) = BedBlockValues(before)
        /\ AddressValues(db) = AddressValues(before)
        /\ ShapeValues(db) = ShapeValues(before)

\* The contract rows of the last call's (external contract id, crop year).
ContractsOfCall(d) ==
    {c \in d.contracts : /\ c.api_contract_id = Recs[1].ContractId
                         /\ c.crop_year = call.cropYear}

\* C3: a call that commits adds exactly one Farm row, its name null, and the
\* batch's Contract references it; a call that fails adds no Farm row.
C3_OneNullFarmPerCommit ==
    /\ Committed =>
          \E f \in db.farms :
              /\ f.name = NULL
              /\ \A g \in before.farms : g.id # f.id
              /\ db.farms = before.farms \cup {f}
              /\ ContractsOfCall(db) # {}
              /\ \A c \in ContractsOfCall(db) : c.farm_id = f.id
    /\ Failed => db.farms = before.farms

\* A commit for a contract and year that the store already holds.
C3_Witness ==
    /\ Committed
    /\ ContractsOfCall(before) # {}
    /\ Cardinality(db.farms) = 2


\* The bed row of an external bed-history identifier.
BedsOf(d, bedHistoryId) == {b \in d.beds : b.api_bed_history_id = bedHistoryId}

\* C4: after a commit, the bed of a record whose shape list has k >= 1
\* entries has exactly k Shape rows, one per entry of the list.
C4_ShapeRowPerEntry ==
    Committed =>
        \A i \in LastOfBed : Len(Recs[i].Shape) >= 1 =>
            \A b \in BedsOf(db, Recs[i].BedHistoryId) :
                /\ Cardinality(ShapesOf(db, b.id)) = Len(Recs[i].Shape)
                /\ {ShapeEntry(s) : s \in ShapesOf(db, b.id)} = Range(Recs[i].Shape)

\* C5: after a commit of a record for a bed that had Shape rows, none of those
\* rows remains and the bed's rows are those of the record's shape list, also
\* when the list is absent or empty.
C5_EarlierShapesReplaced ==
    Committed =>
        \A i \in LastOfBed :
            \A b \in BedsOf(db, Recs[i].BedHistoryId) :
                ShapesOf(before, b.id) # {} =>
                    /\ ShapesOf(before, b.id) \cap ShapesOf(db, b.id) = {}
                    /\ Cardinality(ShapesOf(db, b.id)) = Len(Recs[i].Shape)
                    /\ {ShapeEntry(s) : s \in ShapesOf(db, b.id)} = Range(Recs[i].Shape)

\* The natural keys of the records of the last call.
AddressTuple(a) == <<a.Street1, a.City, a.State, a.PostalCode>>
AddressTuples == {AddressTuple(Recs[i].Address) : i \in 1..Len(Recs)}
BlockNames == {Recs[i].BogName : i \in 1..Len(Recs)}
BedHistoryIds == {Recs[i].BedHistoryId : i \in 1..Len(Recs)}

\* C6: a commit on an empty store creates one Address row per distinct
\* (street, city, state, postal) key, one BedBlock row per distinct block name
\* and one Bed row per distinct bed-history identifier of the payload; beds of
\* records that share the address key and the block name reference the same
\* Address and BedBlock.
C6_RowsPerDistinctKey ==
    (Committed /\ before = EmptyDb) =>
        /\ Cardinality(db.farm_addresses) = Cardinality(AddressTuples)
        /\ Cardinality(db.bed_blocks) = Cardinality(BlockNames)
        /\ Cardinality(db.beds) = Cardinality(BedHistoryIds)
        /\ \A i, j \in LastOfBed :
              (/\ AddressTuple(Recs[i].Address) = AddressTuple(Recs[j].Address)
               /\ Recs[i].BogName = Recs[j].BogName) =>
                  \A b \in BedsOf(db, Recs[i].BedHistoryId),
                     c \in BedsOf(db, Recs[j].BedHistoryId) :
                      /\ b.farm_address_id = c.farm_address_id
                      /\ b.bed_block_id = c.bed_block_id

\* C7: at most one Contract row per (external contract id, crop year); a
\* commit for a pair the store holds keeps the row's id and replaces its
\* contract number and farm reference, a commit for a new pair adds a row, and
\* the rows of every other pair stay as they were.
C7_ContractPerIdAndYear ==
    /\ \A c, e \in db.contracts :
          (c.api_contract_id = e.api_contract_id /\ c.crop_year = e.crop_year) => c = e
    /\ Committed =>
          /\ Cardinality(ContractsOfCall(db)) = 1
          /\ \A c \in ContractsOfCall(db) :
                /\ c.contract_number = Recs[1].ContractNumber
                /\ \A f \in before.farms : c.farm_id # f.id
                /\ \A o \in ContractsOfCall(before) : c.id = o.id
                /\ ContractsOfCall(before) = {} =>
                      \A o \in before.contracts : c.id # o.id
          /\ db.contracts \ ContractsOfCall(db)
                = before.contracts \ ContractsOfCall(before)

\* The contract is ingested for a second crop year: two rows, the first one
\* untouched.
C7_Witness ==
    /\ Committed
    /\ ContractsOfCall(before) = {}
    /\ \E o \in before.contracts :
          o.api_contract_id = Recs[1].ContractId /\ o.crop_year # call.cropYear
    /\ Cardinality(db.contracts) = 2

\* The address a row of farm_addresses stands for.
AddressOfRow(r) == [Street1 |-> r.street, Street2 |-> r.street2, City |-> r.city,
                    State |-> r.state, PostalCode |-> r.postal_code,
                    Country |-> r.country]

\* C8: at most one Bed row per external bed-history identifier; after a
\* commit, a bed the payload carries has the values of its last record and
\* references the batch's contract, a block of that contract with the record's
\* block name and an address of the contract's farm under the record's
\* address key; a bed the payload does not carry is as it was.
C8_BedPerHistoryId ==
    /\ \A b, c \in db.beds : b.api_bed_history_id = c.api_bed_history_id => b = c
    /\ Committed =>
          \A b \in db.beds :
              LET idx == {i \in LastOfBed : Recs[i].BedHistoryId = b.api_bed_history_id}
              IN  IF idx = {} THEN b \in before.beds
                  ELSE \A i \in idx :
                        /\ \A o \in BedsOf(before, b.api_bed_history_id) : o.id = b.id
                        /\ b.bed_name = Recs[i].HandlerSectionName
                        /\ b.handler_section_name = Recs[i].HandlerSectionName
                        /\ b.acres = Recs[i].Acres
                        /\ b.variety = Recs[i].Variety
                        /\ b.plant_date = Recs[i].PlantDate
                        /\ b.fruit_type_export = Recs[i].FruitType.Export
                        /\ b.fruit_type_global_gap = Recs[i].FruitType.GlobalGap
                        /\ b.fruit_type_organic = Recs[i].FruitType.Organic
                        /\ b.fruit_type_processed = Recs[i].FruitType.Processed
                        /\ b.fruit_type_white = Recs[i].FruitType.White
                        /\ \E c \in ContractsOfCall(db) :
                              /\ b.contract_id = c.id
                              /\ \E k \in RowsById(db.bed_blocks, b.bed_block_id) :
                                    k.contract_id = c.id /\ k.name = Recs[i].BogName
                              /\ \E a \in RowsById(db.farm_addresses, b.farm_address_id) :
                                    /\ a.farm_id = c.farm_id
                                    /\ AddressKey(AddressOfRow(a)) = AddressKey(Recs[i].Address)

\* A bed the store holds is reported again under another crop year with other
\* values, another block name and no shapes.
C8_Witness ==
    /\ Committed
    /\ \E i \in LastOfBed :
          \E o \in BedsOf(before, Recs[i].BedHistoryId),
             b \in BedsOf(db, Recs[i].BedHistoryId) :
              /\ o.acres # b.acres
              /\ o.contract_id # b.contract_id
              /\ o.bed_block_id # b.bed_block_id
              /\ o.farm_address_id # b.farm_address_id
    /\ \E b \in db.beds : b \in before.beds /\ BedHistoryIds \cap {b.api_bed_history_id} = {}


-----------------------------------------------------------------------------
(* Properties of the decoder and of the all-beds export *)

\* A polygon text with unbalanced parentheses or a non-numeric component.
Malformed(t) ==
    \E ps \in PairSeqs, m \in {"dropClose", "dropOpen", "nonNumeric"} :
        t = Malform(Encode(ps), m)

\* C9: on a malformed polygon text (a missing closing parenthesis, a
\* non-numeric component) the decoder returns null, and does not raise (the
\* call completes).
C9_MalformedDecodesToNull ==
    (decodePc = "done" /\ Malformed(polygonString)) => coordinates = NullCoordinates

\* The shape rows the export reads, those that are of the inbound format and
\* those that are not.
RowsRead == {s \in db.shapes : s.shape_value # NULLTEXT}
Decodable == {s \in RowsRead : WellFormed(s.shape_value)}
Undecodable == RowsRead \ Decodable

FeaturesOfBed(bedId) ==
    {i \in 1..Len(exported.features) : exported.features[i].properties.bed_id = bedId}

\* C10: the all-beds export emits one feature per shape row whose value
\* decodes and none for an undecodable row; the skipped count is the number of
\* undecodable rows, and valid plus skipped is the number of rows read.
C10_ExportSkipsUndecodable ==
    exported.done =>
        /\ exported.rows = Cardinality(RowsRead)
        /\ exported.validShapes + exported.invalidShapes = exported.rows
        /\ exported.validShapes = Len(exported.features)
        /\ exported.invalidShapes = Cardinality(Undecodable)
        /\ Len(exported.features) = Cardinality(Decodable)
        /\ \A s \in Decodable : FeaturesOfBed(s.bed_id) # {}
        /\ \A s \in Undecodable :
              \A i \in FeaturesOfBed(s.bed_id) :
                  \E g \in Decodable :
                      /\ g.bed_id = s.bed_id
                      /\ exported.features[i].geometry.coordinates
                            = parsePolygonToGeoJSON(g.shape_value)

\* The ring the inbound format stands for: the pairs of the text, in order.
RingOf(ps) == [i \in 1..Len(ps) |-> <<Number(ps[i][1]), Number(ps[i][2])>>]

\* C11: for a valid polygon text of n >= 3 pairs the decoder returns exactly
\* one ring of n pairs in the order of the text, each pair holding the
\* longitude first and the latitude second, both numbers.
C11_ValidDecodesToOneRing ==
    decodePc = "done" =>
        \A ps \in PairSeqs :
            (Len(ps) >= 3 /\ polygonString = Encode(ps)) =>
                /\ Len(coordinates) = 1
                /\ Len(coordinates[1]) = Len(ps)
                /\ coordinates = <<RingOf(ps)>>

\* A three-pair polygon with a negative longitude has been decoded.
C11_Witness ==
    /\ decodePc = "done"
    /\ polygonString = Polygon1
    /\ coordinates = <<<<<<Number(-1), Number(2)>>, <<Number(10), Number(2)>>,
                         <<Number(10), Number(33)>>>>>>

-----------------------------------------------------------------------------
(* Properties of the address normalizer *)

\* C12: the address whose street is "C/O Jane Doe, 123 Main St", with no
\* secondary line, is normalized to an address with street "123 Main St",
\* not to the undeliverable signal.
C12_CareOfPrefixStripped ==
    (/\ cleanPc = "done"
     /\ rawAddress.street = "C/O Jane Doe, 123 Main St"
     /\ rawAddress.street2 = NULL) =>
        /\ cleaned # NullAddress
        /\ cleaned.street = "123 Main St"

\* C13 as claimed: a primary line of the PO-box, care-of or Attn pattern gives
\* the undeliverable signal when there is no secondary line, and otherwise an
\* address whose primary line is the former secondary line and whose secondary
\* line is absent; the other four fields are returned unchanged.
C13_SecondaryPromotedAsIs ==
    cleanPc = "done" =>
        /\ MatchesNoPhysical(rawAddress.street) =>
              IF Truthy(rawAddress.street2)
              THEN /\ cleaned # NullAddress
                   /\ cleaned.street = rawAddress.street2
                   /\ cleaned.street2 = NULL
              ELSE cleaned = NullAddress
        /\ cleaned # NullAddress =>
              /\ cleaned.city = rawAddress.city
              /\ cleaned.state = rawAddress.state
              /\ cleaned.postal_code = rawAddress.postal_code
              /\ cleaned.country = rawAddress.country

\* C13 as amended: the primary line returned is the former secondary line
\* with a leading care-of/Attn fragment stripped and its blanks trimmed.
C13_SecondaryPromotedCleaned ==
    cleanPc = "done" =>
        /\ MatchesNoPhysical(rawAddress.street) =>
              IF Truthy(rawAddress.street2)
              THEN /\ cleaned # NullAddress
                   /\ cleaned.street = CleanLine(rawAddress.street2)
                   /\ cleaned.street2 = NULL
              ELSE cleaned = NullAddress
        /\ cleaned # NullAddress =>
              /\ cleaned.city = rawAddress.city
              /\ cleaned.state = rawAddress.state
              /\ cleaned.postal_code = rawAddress.postal_code
              /\ cleaned.country = rawAddress.country

\* A PO-box line with a secondary line that carries a care-of fragment.
C13_Witness ==
    /\ cleanPc = "done"
    /\ rawAddress.street = "P.O. Box 12"
    /\ rawAddress.street2 = "c/o Ann, 9 Elm St"
    /\ rawAddress.city = "Wareham"
    /\ cleaned # NullAddress
    /\ cleaned.street = "9 Elm St"
    /\ cleaned.street2 = NULL

-----------------------------------------------------------------------------
(* Properties of the geocoding resolver *)

\* geocodeAddress is under way, or it has returned and the loop has not yet
\* dealt with what it returned.
Resolving == gpc \in {"census", "sleep1", "nominatim", "sleep2", "city"}
Returned == gpc = "record"

\* The requests of the pass that were made for the address of a given id.
RequestsOf(id) == {k \in 1..Len(requests) : requests[k].id = id}

\* The ways a provider call can fail, and the ways it can give no match.
Failures == {"timeout", "error", "unparsable"}
NoMatches == Failures \cup {"empty"}

\* The steps of the current call that are delays.
Delays == {k \in 1..Len(trail) : trail[k].step = "sleep"}

\* C14: when the Census matches the full address, geocodeAddress makes that
\* one provider request and no other, waits no delay, and returns the match.
C14_PrimaryMatchEndsChain ==
    (trail # <<>> /\ trail[1].outcome = "match") =>
        /\ Len(trail) = 1
        /\ inflight = {}
        /\ ~Resolving
        /\ Returned =>
              /\ Cardinality(RequestsOf(addresses[addrIdx].id)) = 1
              /\ \A k \in RequestsOf(addresses[addrIdx].id) :
                    /\ requests[k].provider = "census"
                    /\ now = requests[k].start + Latency
              /\ Usable(result)
              /\ result.value.source = "US Census"

\* The second address of a pass is matched by the Census on its full address.
C14_Witness ==
    /\ Returned
    /\ addrIdx = 2
    /\ trail # <<>> /\ trail[1].outcome = "match"
    /\ trail[1].query = "45 Bog Rd, Carver, MA, 02330"
    /\ Len(outcomes) = 1

\* An address with no physical line: the primary line is of the PO-box,
\* care-of or Attn pattern and there is no secondary line.
UndeliverableLines ==
    {<<a.Street1, a.Street2>> :
        a \in {g \in {GeoAddresses[k] : k \in DOMAIN GeoAddresses} :
                    MatchesNoPhysical(g.Street1) /\ ~Truthy(g.Street2)}}
Undeliverable(a) == <<a.street, a.street2>> \in UndeliverableLines

\* C15: for an undeliverable address geocodeAddress returns the
\* no-physical-address error with no provider request and no delay, and the
\* loop counts a failure, lists the address with that reason and leaves its
\* coordinates null.
C15_UndeliverableSkipsProviders ==
    /\ \A k \in 1..Len(addresses) :
          Undeliverable(addresses[k]) =>
              /\ RequestsOf(addresses[k].id) = {}
              /\ \A r \in db.farm_addresses :
                    r.id = addresses[k].id => r.latitude = NULL /\ r.longitude = NULL
              /\ k <= Len(outcomes) =>
                    /\ ~outcomes[k].stored
                    /\ \E f \in 1..Len(failed) :
                          /\ failed[f].id = addresses[k].id
                          /\ failed[f].reason = "P.O. Box only - no physical address"
    /\ (Returned /\ Undeliverable(addresses[addrIdx])) =>
          /\ result = Resolved([error |-> "P.O. Box only - no physical address"])
          /\ trail = <<>>
          /\ inflight = {}
          /\ now = IF requests = <<>> THEN 0 ELSE requests[Len(requests)].end
    /\ Resolving => ~Undeliverable(addresses[addrIdx])
    /\ tally.failCount >=
          Cardinality({k \in 1..Len(outcomes) : Undeliverable(addresses[k])})

\* The PO-box address is the second of a pass and has been recorded as failed.
C15_Witness ==
    /\ Len(outcomes) = 2
    /\ Undeliverable(addresses[2])
    /\ outcomes[1].stored
    /\ tally.failCount = 1
    /\ Len(failed) = 1

\* C16: a provider call that times out, fails in transport or answers with an
\* unparsable body counts as no match for its step: the chain goes on as after
\* an empty result, geocodeAddress does not raise, and the match of a later
\* step is returned.
C16_ProviderFailureIsNoMatch ==
    /\ ~result.rejected
    /\ \A k \in 1..Len(trail) :
          (trail[k].step = "request" /\ trail[k].outcome \in NoMatches) =>
              CASE k = 1 ->
                      \/ gpc = "sleep1"
                      \/ gpc = "exit" /\ Len(trail) = 1
                      \/ /\ Len(trail) >= 3
                         /\ trail[2].step = "sleep"
                         /\ trail[3].provider = "nominatim"
                         /\ trail[3].query = trail[1].query
                [] k = 3 ->
                      IF Truthy(frame.cleaned.city) /\ Truthy(frame.cleaned.state)
                      THEN \/ gpc = "sleep2"
                           \/ gpc = "exit" /\ Len(trail) = 3
                           \/ /\ Len(trail) = 5
                              /\ trail[4].step = "sleep"
                              /\ trail[5].provider = "census"
                              /\ trail[5].query = CityString(frame.cleaned)
                      ELSE /\ Len(trail) = 3
                           /\ gpc # "exit" => result = Resolved(NoResult)
                [] k = 5 -> gpc # "exit" => result = Resolved(NoResult)
    /\ (trail # <<>> /\ trail[Len(trail)].outcome = "match" /\ gpc # "exit") =>
          /\ Usable(result)
          /\ result.value.latitude.kind = "number"
          /\ result.value.longitude.kind = "number"

\* The Census times out, Nominatim answers with an unparsable body, and the
\* city-level query matches.
C16_Witness ==
    /\ Returned
    /\ Len(trail) = 5
    /\ trail[1].outcome = "timeout"
    /\ trail[3].outcome = "unparsable"
    /\ trail[5].outcome = "match"
    /\ Usable(result)
    /\ now >= TIMEOUT_MS + 2 * DELAY_MS

\* The stored outcomes of the pass with a given source label.
StoredFrom(source) ==
    {k \in 1..Len(outcomes) : outcomes[k].stored /\ outcomes[k].source = source}

\* C17: geocodeAddress returns an approximate result, labelled city-level,
\* exactly when the result is that of the city-and-state query; the result of
\* a full-address query is not approximate and carries the provider's plain
\* label.  The loop counts a city-level result as approximate and as
\* city-level, never under the Census count.
C17_ApproximateIffCityLevel ==
    /\ (Returned /\ Usable(result)) =>
          /\ Len(trail) \in {1, 3, 5}
          /\ (result.value.approximate = "true") <=> (Len(trail) = 5)
          /\ (result.value.source = "US Census (city-level)") <=> (Len(trail) = 5)
          /\ Len(trail) = 5 => trail[5].query = CityString(frame.cleaned)
          /\ Len(trail) = 1 => result.value.source = "US Census"
          /\ Len(trail) = 3 => result.value.source = "Nominatim"
    /\ tally.cityLevel = Cardinality(StoredFrom("US Census (city-level)"))
    /\ tally.approximateCount = Cardinality(StoredFrom("US Census (city-level)"))
    /\ tally.census = Cardinality(StoredFrom("US Census"))
    /\ tally.nominatim = Cardinality(StoredFrom("Nominatim"))

\* One address was matched by the Census on its full address, the next one
\* only at city level.
C17_Witness ==
    /\ Len(outcomes) = 2
    /\ outcomes[1].stored /\ outcomes[1].source = "US Census"
    /\ outcomes[2].stored /\ outcomes[2].source = "US Census (city-level)"
    /\ tally.census = 1 /\ tally.cityLevel = 1 /\ tally.approximateCount = 1

\* The Nominatim requests of the pass.
SecondaryRequests == {k \in 1..Len(requests) : requests[k].provider = "nominatim"}

\* C18: every Nominatim request of a pass starts a full delay or more after
\* the end of the provider request before it, and any two Nominatim requests
\* start a delay or more apart.
C18_SecondaryRequestsSpaced ==
    /\ \A k \in SecondaryRequests :
          /\ k > 1
          /\ requests[k - 1].end # -1
          /\ requests[k].start - requests[k - 1].end >= DELAY_MS
    /\ \A j, k \in SecondaryRequests :
          j < k => requests[k].start - requests[j].start >= DELAY_MS

\* Two addresses of one pass went to Nominatim.
C18_Witness ==
    \E j, k \in SecondaryRequests :
        /\ j < k
        /\ requests[j].id # requests[k].id
        /\ requests[k].end # -1

\* C19: at most one provider request is in flight, it is a request for the
\* address of the loop, and while geocodeAddress runs for an address every
\* address before it has been dealt with: its coordinates are in the store or
\* it is in the failed list.
C19_OneRequestAtATime ==
    /\ Cardinality(inflight) <= 1
    /\ \A req \in inflight : Resolving /\ req.id = addresses[addrIdx].id
    /\ (Resolving \/ Returned \/ gpc = "resolve") =>
          /\ Len(outcomes) = addrIdx - 1
          /\ tally.successCount + tally.failCount = addrIdx - 1
          /\ \A k \in 1..(addrIdx - 1) :
                /\ outcomes[k].id = addresses[k].id
                /\ \/ \E r \in db.farm_addresses :
                         r.id = addresses[k].id /\ r.latitude # NULL /\ r.longitude # NULL
                   \/ \E f \in 1..Len(failed) : failed[f].id = addresses[k].id
    /\ \A k \in 1..Len(requests) :
          requests[k].end = -1 =>
              /\ k = Len(requests)
              /\ gpc # "exit" => Cardinality(inflight) = 1
    /\ \A k \in 2..Len(requests) : requests[k].start >= requests[k - 1].end

\* The first request of the second address is in flight after a request of
\* the first address timed out.
C19_Witness ==
    /\ gpc = "census"
    /\ addrIdx = 2
    /\ Cardinality(inflight) = 1
    /\ Len(requests) >= 2
    /\ requests[1].end - requests[1].start = TIMEOUT_MS
    /\ outcomes[1].stored

\* C20: the coordinates that the loop has written for an address are in the
\* store from then on, whatever happens to the addresses after it (no match,
\* a failed UPDATE, the end of the process), and they are written before
\* geocodeAddress is called for the next address.
C20_CoordinatesPersistPerAddress ==
    /\ \A k \in 1..Len(outcomes) :
          outcomes[k].stored =>
              \E r \in db.farm_addresses :
                  /\ r.id = outcomes[k].id
                  /\ r.latitude = outcomes[k].latitude
                  /\ r.longitude = outcomes[k].longitude
                  /\ r.latitude # NULL /\ r.longitude # NULL
    /\ \A k \in 1..Len(requests) :
          \A j \in 1..Len(addresses) :
              (addresses[j].id = requests[k].id /\ j > 1) => Len(outcomes) >= j - 1

\* The first address was written by Nominatim; the UPDATE of the second one
\* failed.
C20_Witness ==
    /\ Len(outcomes) = 2
    /\ outcomes[1].stored /\ outcomes[1].source = "Nominatim"
    /\ ~outcomes[2].stored /\ outcomes[2].latitude # NULL
    /\ tally.failCount = 1

-----------------------------------------------------------------------------
(* Properties of the fetch run *)

\* The turns of the loop so far: the result pushed and what happened.
Turns == 1..Len(run.results)

\* C21: every contract of the list is processed once, in list order, whatever
\* became of the others: the i-th result is that of the i-th contract, a failed
\* fetch is recorded as such with no ingestion attempted, a failed ingestion is
\* recorded as such, and the run is still going as long as the list is not done.
C21_RunCoversListInOrder ==
    /\ Len(run.results) < Len(run.contracts) => run.pc = "loop"
    /\ run.pc = "done" => Len(run.results) = Len(run.contracts)
    /\ Len(run.log) = Len(run.results)
    /\ \A i \in Turns :
          /\ run.results[i].contractNumber = run.contracts[i]
          /\ run.log[i].contract = run.contracts[i]
          /\ run.results[i].api.success = (run.log[i].api = "ok")
          /\ run.log[i].attempted = run.results[i].api.success
          /\ run.results[i].db.success = run.log[i].committed

\* A finished run of three contracts: the fetch of the first failed, the
\* ingestion of the second failed, the third was committed.
C21_Witness ==
    /\ run.pc = "done"
    /\ Len(run.contracts) = 3
    /\ ~run.results[1].api.success
    /\ run.results[2].api.success /\ ~run.results[2].db.success
    /\ run.results[3].db.success
    /\ run.summary = [apiSuccess |-> 2, apiFailed |-> 1, dbSuccess |-> 1, dbFailed |-> 1]

-----------------------------------------------------------------------------
(* Properties of the by-farm export and of name reconciliation *)

\* The beds of a farm's contracts that have a shape whose value is not NULL.
ShapedBedsOf(d, farmId) ==
    {b.id : b \in {b \in d.beds :
        /\ \E c \in d.contracts : c.id = b.contract_id /\ c.farm_id = farmId
        /\ \E s \in d.shapes : s.bed_id = b.id /\ s.shape_value # NULLTEXT}}

\* The farms with at least one shaped bed.
ShapedFarms(d) == {f \in d.farms : ShapedBedsOf(d, f.id) # {}}

\* The beds a document has a feature of.
BedsIn(document) == {document.features[i].properties.bed_id : i \in 1..Len(document.features)}

\* C22: after ExportByFarm there is one document per farm that has a shaped
\* bed, holding that farm's shaped beds and no other bed, and the documents on
\* disk are as many as those farms, whatever the names of the farms.
C22_DocumentPerFarm ==
    byFarm.done =>
        /\ Cardinality(byFarm.files) = Cardinality(ShapedFarms(db))
        /\ \A f \in ShapedFarms(db) :
              \E file \in byFarm.files : BedsIn(file.document) = ShapedBedsOf(db, f.id)

\* The features of the by-farm documents, as they were built.
FarmDocFeatures == UNION {Range(byFarm.docs[i].features) : i \in 1..Len(byFarm.docs)}

\* C23: ExportAll and ExportByFarm build the same feature for the same shape
\* of the same bed: same geometry, same properties with the same values.
C23_SameFeatureInBothExports ==
    (exported.done /\ byFarm.done) =>
        \A fa \in Range(exported.features), ff \in FarmDocFeatures :
            (fa.properties.bed_id = ff.properties.bed_id /\ fa.geometry = ff.geometry)
                => /\ DOMAIN fa.properties = DOMAIN ff.properties
                   /\ \A k \in DOMAIN fa.properties : fa.properties[k] = ff.properties[k]

-----------------------------------------------------------------------------
(* Properties of the points export *)

\* The addresses that have a latitude and a longitude.
Geocoded(d) == {fa \in d.farm_addresses : fa.latitude # NULL /\ fa.longitude # NULL}

\* The beds of the contracts of a farm.
BedsOfFarm(d, farmId) ==
    {b \in d.beds : \E c \in d.contracts : c.id = b.contract_id /\ c.farm_id = farmId}

\* The sum of the acres of a set of beds.
RECURSIVE AcresOf(_)
AcresOf(beds) ==
    IF beds = {} THEN 0
    ELSE LET b == CHOOSE x \in beds : TRUE IN b.acres + AcresOf(beds \ {b})

\* The features of the points document that are of address fa.
PointsOf(fa) ==
    {i \in 1..Len(points.features) :
        /\ points.features[i].properties.farm_id = fa.farm_id
        /\ points.features[i].properties.address = FullAddress(fa)}

\* C24: ExportPoints emits one point feature for each farm address that has a
\* latitude and a longitude and no other feature, and the acreage of a feature
\* is the sum of the acres of the beds of its farm's contracts, zero when the
\* farm has none.
C24_PointPerGeocodedAddress ==
    points.done =>
        /\ Len(points.features) = Cardinality(Geocoded(db))
        /\ \A fa \in Geocoded(db) :
              /\ Cardinality(PointsOf(fa)) = 1
              /\ \A i \in PointsOf(fa) :
                    points.features[i].properties.total_acres
                        = AcresOf(BedsOfFarm(db, fa.farm_id))
        /\ \A fa \in db.farm_addresses \ Geocoded(db) : PointsOf(fa) = {}

\* Two ingestions of one contract, a pass that found one of the two addresses
\* of each: a point for the farm that lost its contract (no acres), a point
\* for the farm that has it (13 acres), none for the two other addresses.
C24_Witness ==
    /\ points.done
    /\ Len(points.features) = 2
    /\ Cardinality(db.farm_addresses \ Geocoded(db)) = 2
    /\ \E i, j \in 1..2 :
          /\ points.features[i].properties.total_acres = 0
          /\ points.features[j].properties.total_acres = 13

-----------------------------------------------------------------------------
(* Properties of insertIntoDatabase across batches *)

\* The contract row a bed references.
ContractOfBed(d, b) == CHOOSE c \in d.contracts : c.id = b.contract_id

\* C25: after any sequence of ingestions, a Bed that references an Address
\* references one of the Farm of the Bed's Contract, and a Bed that references
\* a BedBlock references one of the Bed's own Contract; beds that a later
\* ingestion of their contract no longer lists are no exception.
C25_BedReferencesWithinContract ==
    \A b \in db.beds :
        /\ \A a \in RowsById(db.farm_addresses, b.farm_address_id) :
              a.farm_id = ContractOfBed(db, b).farm_id
        /\ \A k \in RowsById(db.bed_blocks, b.bed_block_id) :
              k.contract_id = b.contract_id

\* The farm rows the contract of the last call references in tables d.
FarmsOfCall(d) == {f \in d.farms : \E c \in ContractsOfCall(d) : c.farm_id = f.id}

\* C26: when the contract of a batch referenced a farm with a name before the
\* batch, the farm it references after the commit has a name.
C26_NamedFarmStaysNamed ==
    (Committed /\ \E f \in FarmsOfCall(before) : f.name # NULL)
        => \A f \in FarmsOfCall(db) : f.name # NULL

\* The contract rows of a crop year other than that of the last call.
OtherYears(d) == {c \in d.contracts : c.crop_year # call.cropYear}

\* C27 as stated: a commit for one crop year leaves the rows of the other crop
\* years as they were, every Contract row of another year keeping every Bed
\* that referenced it, also a Bed whose identifier the payload carries.
C27_OtherYearKeepsItsBeds ==
    Committed =>
        \A c \in OtherYears(before) :
            /\ c \in db.contracts
            /\ \A b \in before.beds : b.contract_id = c.id => b \in db.beds

\* C27 amended: a commit for one crop year leaves the Contract rows of the
\* other years, their farms and their blocks as they were, and such a Contract
\* keeps, unchanged and with its shapes, every Bed that referenced it except
\* the Beds whose bed-history identifier the payload carries; those are
\* overwritten and reference the Contract of the batch.
C27_OtherYearKeepsUnlistedBeds ==
    Committed =>
        \A c \in OtherYears(before) :
            /\ c \in db.contracts
            /\ RowsById(before.farms, c.farm_id) \subseteq db.farms
            /\ {k \in before.bed_blocks : k.contract_id = c.id} \subseteq db.bed_blocks
            /\ \A b \in before.beds : b.contract_id = c.id =>
                  IF b.api_bed_history_id \in BedHistoryIds
                  THEN \A n \in BedsOf(db, b.api_bed_history_id) :
                          /\ n.id = b.id
                          /\ \E x \in ContractsOfCall(db) : n.contract_id = x.id
                  ELSE b \in db.beds /\ ShapesOf(db, b.id) = ShapesOf(before, b.id)

\* A contract of 2024 had two beds; the batch of 2025 carries one of them.
C27_Witness ==
    /\ Committed
    /\ \E c \in OtherYears(before) :
          /\ \E b \in before.beds :
                b.contract_id = c.id /\ b.api_bed_history_id \in BedHistoryIds
          /\ \E b \in before.beds :
                b.contract_id = c.id /\ b.api_bed_history_id \notin BedHistoryIds

\* The last call ran the payload and crop year of the call before it, which
\* was committed too.
Unchanged ==
    /\ Committed
    /\ prev.op = "ingest" /\ prev.success
    /\ prev.contractData = call.contractData
    /\ prev.cropYear = call.cropYear

\* The addresses without a latitude or without a longitude.
NotGeocoded(d) == {a \in d.farm_addresses : a.latitude = NULL \/ a.longitude = NULL}

\* C28: when every address had coordinates before a batch that repeats the
\* batch before it, every Bed of the batch references an address with
\* coordinates after the commit and no address is without coordinates.
C28_RerunKeepsCoordinates ==
    (Unchanged /\ before.farm_addresses # {} /\ NotGeocoded(before) = {})
        => /\ NotGeocoded(db) = {}
           /\ \A b \in db.beds : b.api_bed_history_id \in BedHistoryIds =>
                 \A a \in RowsById(db.farm_addresses, b.farm_address_id) :
                     a \notin NotGeocoded(db)

\* The bed row of record i after the commit.
BedOfRecord(i) == CHOOSE b \in db.beds : b.api_bed_history_id = Recs[i].BedHistoryId

\* C29: the records are applied in input order: the rows of a record come
\* before those of the next (a bed first seen in an earlier record has the
\* smaller id), and of two records with one bed-history identifier the later
\* one gives the committed Bed row its values and its shapes.
C29_LaterRecordWins ==
    Committed =>
        /\ \A i, j \in 1..Len(Recs) :
              (/\ i < j
               /\ Recs[i].BedHistoryId # Recs[j].BedHistoryId
               /\ BedsOf(before, Recs[i].BedHistoryId) = {}
               /\ BedsOf(before, Recs[j].BedHistoryId) = {}
               /\ \A h \in 1..(i - 1) : Recs[h].BedHistoryId # Recs[i].BedHistoryId
               /\ \A h \in 1..(j - 1) : Recs[h].BedHistoryId # Recs[j].BedHistoryId)
                  => BedOfRecord(i).id < BedOfRecord(j).id
        /\ \A i \in LastOfBed :
              (\E h \in 1..(i - 1) : Recs[h].BedHistoryId = Recs[i].BedHistoryId) =>
                  /\ BedOfRecord(i).bed_name = Recs[i].HandlerSectionName
                  /\ BedOfRecord(i).acres = Recs[i].Acres
                  /\ BedOfRecord(i).variety = Recs[i].Variety
                  /\ {ShapeEntry(x) : x \in ShapesOf(db, BedOfRecord(i).id)}
                        = Range(Recs[i].Shape)

\* C30: the caches are of one call: every Bed a batch writes references an
\* Address row of the Farm the batch created, under the record's address key,
\* and a BedBlock row of the batch's Contract with the record's block name,
\* also when an earlier batch used that address key or that block name.
C30_CachesOfOneBatch ==
    Committed =>
        \A i \in LastOfBed :
            \E c \in ContractsOfCall(db) :
                /\ c.farm_id \notin {f.id : f \in before.farms}
                /\ BedOfRecord(i).contract_id = c.id
                /\ \E a \in RowsById(db.farm_addresses, BedOfRecord(i).farm_address_id) :
                      /\ a.farm_id = c.farm_id
                      /\ AddressKey(AddressOfRow(a)) = AddressKey(Recs[i].Address)
                /\ \E k \in RowsById(db.bed_blocks, BedOfRecord(i).bed_block_id) :
                      k.contract_id = c.id /\ k.name = Recs[i].BogName

\* The batch before used the address key and the block name of a record of
\* this batch, for another contract row.
C30_Witness ==
    /\ Committed
    /\ ContractsOfCall(before) = {}
    /\ \E i \in LastOfBed :
          /\ \E a \in before.farm_addresses :
                AddressKey(AddressOfRow(a)) = AddressKey(Recs[i].Address)
          /\ \E k \in before.bed_blocks : k.name = Recs[i].BogName
          /\ BedOfRecord(i) \notin before.beds

-----------------------------------------------------------------------------
(* Properties of the store under all its writers *)

\* The tables whose rows no program deletes.
KeptTables == {"farms", "farm_addresses", "contracts", "bed_blocks", "beds"}

Ids(rows) == {r.id : r \in rows}

\* C31: no step of ingestion, of the geocoding pass or of name reconciliation
\* removes a Farm, Address, Contract, BedBlock or Bed row (every id of these
\* tables before the step is there after it), and a Shape row is removed only
\* by a committed batch, and only when it is a shape of a bed for which the
\* batch carries shapes.
C31_NoRowRemoved ==
    [][/\ \A tb \in KeptTables : Ids(db[tb]) \subseteq Ids(db'[tb])
       /\ \A s \in db.shapes :
             s.id \notin Ids(db'.shapes) =>
                 /\ call'.op = "ingest" /\ call'.success /\ ncalls' = ncalls + 1
                 /\ \E i \in 1..Len(call'.contractData) :
                       /\ call'.contractData[i].Shape # <<>>
                       /\ \E b \in db.beds :
                             /\ b.id = s.bed_id
                             /\ b.api_bed_history_id = call'.contractData[i].BedHistoryId]_vars

\* A batch replaced the shapes of a bed, and the geocoding pass and name
\* reconciliation have run on the store since.
C31_Witness ==
    /\ Committed
    /\ \E s \in before.shapes : s \notin db.shapes
    /\ gpc = "done"
    /\ tally.successCount >= 1
    /\ naming.done
    /\ naming.updatedCount >= 1
    /\ \A tb \in KeptTables : Ids(before[tb]) \subseteq Ids(db[tb])

-----------------------------------------------------------------------------
(* Properties of the geocoding pass *)

\* C32: a result that geocodeAddress returns without the approximate mark
\* comes from a query with a street line: for an address whose cleaned street
\* is null or empty no such result is returned.
C32_StreetLevelNeedsStreet ==
    (Returned /\ Usable(result) /\ result.value.approximate # "true")
        => /\ Truthy(frame.cleaned.street)
           /\ \A k \in 1..Len(trail) :
                 (trail[k].step # "sleep" /\ trail[k].outcome = "match")
                     => StartsWith(trail[k].query, frame.cleaned.street)

\* The rows of tables d that lack a coordinate.
Lacking(d) == {r \in d.farm_addresses : r.latitude = NULL \/ r.longitude = NULL}

\* C33: a pass makes provider requests only for addresses that lacked a
\* coordinate when it started, the rows that had both coordinates then are as
\* they were, and an address the loop put on the failed list (no match, no
\* physical address, a failed write) has null coordinates and is a row of the
\* SELECT of the next pass.
C33_PassTouchesOnlyMissing ==
    /\ \A k \in 1..Len(requests) : requests[k].id \in Ids(Lacking(before))
    /\ \A k \in 1..Len(outcomes) : outcomes[k].id \in Ids(Lacking(before))
    /\ (before.farm_addresses \ Lacking(before)) \subseteq db.farm_addresses
    /\ \A f \in 1..Len(failed) :
          /\ \E r \in db.farm_addresses :
                r.id = failed[f].id /\ r.latitude = NULL /\ r.longitude = NULL
          /\ \E j \in 1..Len(SelectAddresses(db)) : SelectAddresses(db)[j].id = failed[f].id

\* A pass over two addresses is over: one was written, for the other all
\* three queries gave no match; the store had a geocoded address before.
C33_Witness ==
    /\ gpc = "done"
    /\ before.farm_addresses \ Lacking(before) # {}
    /\ Len(outcomes) = 2
    /\ outcomes[1].stored
    /\ Len(failed) = 1
    /\ failed[1].reason = "No results from any geocoder"
    /\ Len(requests) = 4
    /\ Cardinality(Lacking(db)) = 1

\* The steps of the current call that are provider requests.
Queries == {k \in 1..Len(trail) : trail[k].step = "request"}

\* The current call goes through the chain in its order and no further.
ChainInOrder ==
    /\ Len(trail) <= 5
    /\ Cardinality(Queries) <= 3
    /\ Cardinality(Delays) <= 2
    /\ Queries \subseteq {1, 3, 5}
    /\ Delays \subseteq {2, 4}
    /\ 1 \in Queries =>
          trail[1].provider = "census" /\ trail[1].query = frame.addressString
    /\ 3 \in Queries =>
          trail[3].provider = "nominatim" /\ trail[3].query = frame.addressString
    /\ 5 \in Queries =>
          trail[5].provider = "census" /\ trail[5].query = CityString(frame.cleaned)
    /\ \A j, k \in Queries : j < k => trail[j].outcome \in NoMatches
    /\ (Returned /\ \A k \in Queries : trail[k].outcome \in NoMatches)
          => (~result.rejected /\ ~Usable(result))

\* C34: a geocodeAddress call makes at most three provider requests, the
\* Census with the full address, Nominatim with the same string, the Census
\* with city and state, each only after the ones before it gave no match, it
\* waits at most two delays, it returns not-found when none matched, and,
\* every provider request settling, the call returns (or the process ends).
C34_ResolveTerminates ==
    /\ []ChainInOrder
    /\ Resolving ~> (Returned \/ gpc = "exit")

\* A call has returned not-found after three requests and two delays, one of
\* the requests having timed out.
C34_Witness ==
    /\ Returned
    /\ Len(trail) = 5
    /\ \A k \in Queries : trail[k].outcome \in NoMatches
    /\ \E k \in Queries : trail[k].outcome = "timeout"
    /\ result = Resolved(NoResult)

-----------------------------------------------------------------------------
(* Properties of the aggregates of the points export *)

\* The contract numbers of a farm, each contract once.
NumbersOnce(d, farmId) ==
    LET cs == InIdOrder({c \in d.contracts : c.farm_id = farmId})
    IN  Join([i \in 1..Len(cs) |-> cs[i].contract_number], ", ")

\* C35: the contract_numbers property of every feature of the points export
\* lists the contract numbers of the farm of the address, each contract once,
\* however many beds the contract has.
C35_ContractNumbersOnce ==
    points.done =>
        \A i \in 1..Len(points.features) :
            points.features[i].properties.contract_numbers
                = NumbersOnce(db, points.features[i].properties.farm_id)

-----------------------------------------------------------------------------
(* Properties of the counters of the geocoding pass *)

\* The addresses that lacked a coordinate when the pass began and have both
\* now.
Received == Ids(Lacking(before)) \ Ids(Lacking(db))

\* C36: when a pass is over, successCount + failCount is the number of
\* addresses selected, successCount is census + nominatim + cityLevel,
\* approximateCount is cityLevel, and successCount addresses have received
\* coordinates in the store.
C36_CountersAddUp ==
    gpc = "done" =>
        /\ tally.successCount + tally.failCount = Len(addresses)
        /\ tally.successCount = tally.census + tally.nominatim + tally.cityLevel
        /\ tally.approximateCount = tally.cityLevel
        /\ Cardinality(Received) = tally.successCount
        /\ Len(failed) = tally.failCount

\* A pass over two addresses is over: one was matched at city level, and the
\* other had a match that could not be written.
C36_Witness ==
    /\ gpc = "done"
    /\ Len(addresses) = 2
    /\ tally.successCount = 1 /\ tally.cityLevel = 1 /\ tally.approximateCount = 1
    /\ tally.failCount = 1
    /\ \E k \in 1..Len(outcomes) : ~outcomes[k].stored /\ outcomes[k].latitude # NULL
    /\ Cardinality(Received) = 1

-----------------------------------------------------------------------------
(* Properties of name reconciliation *)

\* The entries of a grower list that have a contract number, and those of
\* them that have a name too.
EntriesOf(list, number) == {i \in 1..Len(list) : list[i].extBpId = number}
NamedEntriesOf(list, number) ==
    {i \in EntriesOf(list, number) : list[i].bpName # "" /\ list[i].bpName # NULL}

\* The name of the last of a set of entries.
NameOfLast(list, entries) ==
    list[CHOOSE i \in entries : \A j \in entries : j <= i].bpName

\* What every pass leaves, whatever "listed" is taken to mean: the farms of
\* the contracts that are not listed (and the farms of no contract) are as
\* they were, a pass that follows one with the same list, no ingestion in
\* between, updates no row, and the three counts add up to the number of
\* contracts.
PassFrame(Listed(_, _)) ==
    LET list == naming'.growerList
    IN  /\ \A f \in db.farms :
              (\A c \in db.contracts :
                    c.farm_id = f.id => ~Listed(list, c.contract_number))
                  => f \in db'.farms
        /\ (naming.passes >= 1 /\ naming.growerList = list)
              => (db' = db /\ naming'.updatedCount = 0)
        /\ naming'.updatedCount + naming'.alreadySetCount + naming'.notFoundCount
              = Cardinality(db.contracts)
        /\ Ids(db'.farms) = Ids(db.farms)
        /\ [db' EXCEPT !.farms = db.farms] = db

Appears(list, number) == EntriesOf(list, number) # {}
AppearsNamed(list, number) == NamedEntriesOf(list, number) # {}

\* C37 as stated: after a pass the farm of every contract whose number is in
\* the grower list has the name of the entry, also when the entry has an
\* empty name; the farms of the other contracts are unchanged, a second pass
\* with the same list updates no row and the counts add up.
C37_ListedFarmsNamed ==
    [][naming'.passes = naming.passes + 1 =>
          /\ \A c \in db'.contracts :
                Appears(naming'.growerList, c.contract_number) =>
                    \A f \in RowsById(db'.farms, c.farm_id) :
                        f.name = NameOfLast(naming'.growerList,
                                    EntriesOf(naming'.growerList, c.contract_number))
          /\ PassFrame(Appears)]_vars

\* C37 amended: after a pass the farm of every contract whose number is in
\* the grower list with a name has that name; the farms of the other
\* contracts are unchanged, a second pass with the same list and no ingestion
\* in between updates no row, and in every pass updated + already-correct +
\* not-found is the number of contracts.
C37_NamedEntriesApplied ==
    [][naming'.passes = naming.passes + 1 =>
          /\ \A c \in db'.contracts :
                AppearsNamed(naming'.growerList, c.contract_number) =>
                    \A f \in RowsById(db'.farms, c.farm_id) :
                        f.name = NameOfLast(naming'.growerList,
                                    NamedEntriesOf(naming'.growerList, c.contract_number))
          /\ PassFrame(AppearsNamed)]_vars

\* The second pass with one list over two contracts: the farm of one has the
\* listed name already, the other contract is not in the list, and a farm
\* that no contract references has kept its null name.
C37_Witness ==
    /\ naming.passes = 2
    /\ naming.updatedCount = 0
    /\ naming.alreadySetCount = 1
    /\ naming.notFoundCount = 1
    /\ \E c \in db.contracts :
          /\ AppearsNamed(naming.growerList, c.contract_number)
          /\ \A f \in RowsById(db.farms, c.farm_id) : f.name = "Moss & Sons"
    /\ \E c \in db.contracts : ~Appears(naming.growerList, c.contract_number)

====
